---- MODULE Spec2Model ----
(***************************************************************************)
(* Photon: a virtual-hosting content server (static files + PHP over CGI). *)
(* The model follows the modular sources: utils.js (path resolution,       *)
(* generic error responses), router.js (dispatch), htaccess.js (error      *)
(* documents) and the php executor with per-host environment.              *)
(*                                                                         *)
(* Strings are sequences of one-character strings; the server runs on a    *)
(* POSIX host (/etc/photon, /usr/bin/php-cgi), so path.sep is "/" and a    *)
(* backslash is an ordinary file-name character for path.normalize.        *)
(***************************************************************************)
EXTENDS Integers, Sequences, FiniteSets, TLC

SLASH == "/"
DOT == "."
BSL == "\\"

\* JavaScript null, as returned by resolveSafe; no path holds this token.
None == <<"null">>

\* The state of a variable whose operation has not run yet.
NotRun == <<"pending">>

----------------------------------------------------------------------------
(* String helpers (String.prototype.startsWith, split, join)               *)

StartsWith(s, prefix) ==
    /\ Len(prefix) <= Len(s)
    /\ SubSeq(s, 1, Len(prefix)) = prefix

RECURSIVE Split(_, _)
Split(s, sep) ==
    IF \A i \in 1..Len(s) : s[i] # sep
    THEN <<s>>
    ELSE LET i == CHOOSE k \in 1..Len(s) :
                      s[k] = sep /\ \A j \in 1..(k - 1) : s[j] # sep
         IN  <<SubSeq(s, 1, i - 1)>> \o Split(SubSeq(s, i + 1, Len(s)), sep)

RECURSIVE JoinSegs(_, _)
JoinSegs(segs, sep) ==
    IF segs = <<>> THEN <<>>
    ELSE IF Len(segs) = 1 THEN segs[1]
    ELSE segs[1] \o <<sep>> \o JoinSegs(Tail(segs), sep)

----------------------------------------------------------------------------
(* decodeURIComponent over request tokens: a token is a literal character  *)
(* or one percent escape; a malformed escape makes the call throw.         *)

PCT_DOT == "%2e"
PCT_SLASH == "%2f"
PCT_BSL == "%5c"
PCT_BAD == "%zz"

DecodeToken(t) ==
    CASE t = PCT_DOT -> DOT
      [] t = PCT_SLASH -> SLASH
      [] t = PCT_BSL -> BSL
      [] OTHER -> t

DecodeThrows(raw) == \E i \in 1..Len(raw) : raw[i] = PCT_BAD

decodeURIComponent(raw) == [i \in 1..Len(raw) |-> DecodeToken(raw[i])]

----------------------------------------------------------------------------
(* Node's path module, POSIX flavour                                       *)

DotDot == <<DOT, DOT>>

RECURSIVE normalizeString(_, _, _)
normalizeString(segs, acc, allowAboveRoot) ==
    IF segs = <<>> THEN acc
    ELSE LET s == Head(segs)
             r == Tail(segs)
         IN  IF s = <<>> \/ s = <<DOT>>
             THEN normalizeString(r, acc, allowAboveRoot)
             ELSE IF s = DotDot
             THEN IF acc # <<>> /\ acc[Len(acc)] # DotDot
                  THEN normalizeString(r, SubSeq(acc, 1, Len(acc) - 1), allowAboveRoot)
                  ELSE IF allowAboveRoot
                  THEN normalizeString(r, Append(acc, DotDot), allowAboveRoot)
                  ELSE normalizeString(r, acc, allowAboveRoot)
             ELSE normalizeString(r, Append(acc, s), allowAboveRoot)

IsAbsolute(p) == Len(p) > 0 /\ p[1] = SLASH

PathNormalize(p) ==
    IF Len(p) = 0 THEN <<DOT>>
    ELSE LET isAbsolute == IsAbsolute(p)
             trailingSeparator == p[Len(p)] = SLASH
             body == JoinSegs(normalizeString(Split(p, SLASH), <<>>, ~isAbsolute), SLASH)
         IN  IF Len(body) = 0
             THEN IF isAbsolute THEN <<SLASH>>
                  ELSE IF trailingSeparator THEN <<DOT, SLASH>> ELSE <<DOT>>
             ELSE (IF isAbsolute THEN <<SLASH>> ELSE <<>>)
                  \o body
                  \o (IF trailingSeparator THEN <<SLASH>> ELSE <<>>)

PathJoin(a, b) ==
    LET joined == IF Len(a) = 0 THEN b
                  ELSE IF Len(b) = 0 THEN a
                  ELSE a \o <<SLASH>> \o b
    IN  IF Len(joined) = 0 THEN <<DOT>> ELSE PathNormalize(joined)

\* path.resolve of one absolute path: normalized, no trailing separator.
PathResolve(p) ==
    <<SLASH>> \o JoinSegs(normalizeString(Split(p, SLASH), <<>>, FALSE), SLASH)

ResolvedSegs(p) == normalizeString(Split(p, SLASH), <<>>, FALSE)

RECURSIVE CommonLen(_, _)
CommonLen(a, b) ==
    IF a = <<>> \/ b = <<>> \/ Head(a) # Head(b) THEN 0
    ELSE 1 + CommonLen(Tail(a), Tail(b))

PathRelative(from, to) ==
    LET f == ResolvedSegs(from)
        t == ResolvedSegs(to)
        k == CommonLen(f, t)
        ups == [i \in 1..(Len(f) - k) |-> DotDot]
    IN  JoinSegs(ups \o SubSeq(t, k + 1, Len(t)), SLASH)

PathDirname(p) ==
    IF Len(p) = 0 THEN <<DOT>>
    ELSE LET hasRoot == p[1] = SLASH
             names == {i \in 2..Len(p) : p[i] # SLASH}
             m == IF names = {} THEN 0
                  ELSE CHOOSE i \in names : \A j \in names : j <= i
             slashes == {i \in 2..(m - 1) : p[i] = SLASH}
             end == IF slashes = {} THEN 0
                    ELSE CHOOSE i \in slashes : \A j \in slashes : j <= i
         IN  IF end = 0 THEN (IF hasRoot THEN <<SLASH>> ELSE <<DOT>>)
             ELSE IF hasRoot /\ end = 2 THEN <<SLASH, SLASH>>
             ELSE SubSeq(p, 1, end - 1)

PathBasename(p) ==
    LET q == IF Len(p) > 1 /\ p[Len(p)] = SLASH THEN SubSeq(p, 1, Len(p) - 1) ELSE p
        segs == Split(q, SLASH)
    IN  segs[Len(segs)]

----------------------------------------------------------------------------
(* utils.js                                                                *)

\* A check of the final segment only.
hasDotfileLastOnly(p) == StartsWith(PathBasename(p), <<DOT>>)

\* A test that refuses a dot anywhere in a part.
hasDotfileAnywhere(p) ==
    LET parts == Split(p, SLASH)
    IN  \E i \in 1..Len(parts) : \E j \in 1..Len(parts[i]) : parts[i][j] = DOT

hasDotfile(p) ==
    LET parts == Split(p, SLASH)
    IN  \E i \in 1..Len(parts) : StartsWith(parts[i], <<DOT>>)

\* String.prototype.replace(/^(\.\.[\/\\])+/, "")
RECURSIVE StripLeadingDotDot(_)
StripLeadingDotDot(s) ==
    IF Len(s) >= 3 /\ s[1] = DOT /\ s[2] = DOT /\ s[3] \in {SLASH, BSL}
    THEN StripLeadingDotDot(SubSeq(s, 4, Len(s)))
    ELSE s

\* A containment check by string prefix only, without the dot-segment check
\* and without stripping leading traversal sequences.
resolveSafePrefixOnly(base, requestPath) ==
    IF DecodeThrows(requestPath) THEN None
    ELSE LET fullPath == PathJoin(base, PathNormalize(decodeURIComponent(requestPath)))
         IN  IF ~StartsWith(fullPath, PathResolve(base)) THEN None ELSE fullPath

\* The exception of a call that throws, in place of its value
Thrown == <<"throw">>

\* resolveSafe without its try/catch.
resolveSafeNoCatch(base, requestPath) ==
    IF DecodeThrows(requestPath) THEN Thrown
    ELSE LET decoded == decodeURIComponent(requestPath)
             safePath == StripLeadingDotDot(PathNormalize(decoded))
             fullPath == PathJoin(base, safePath)
         IN  IF ~StartsWith(fullPath, PathResolve(base)) THEN None
             ELSE IF hasDotfile(PathRelative(base, fullPath)) THEN None
             ELSE fullPath

resolveSafe(base, requestPath) ==
    IF DecodeThrows(requestPath) THEN None
    ELSE LET decoded == decodeURIComponent(requestPath)
             safePath == StripLeadingDotDot(PathNormalize(decoded))
             fullPath == PathJoin(base, safePath)
         IN  IF ~StartsWith(fullPath, PathResolve(base)) THEN None
             ELSE IF hasDotfile(PathRelative(base, fullPath)) THEN None
             ELSE fullPath

----------------------------------------------------------------------------
(* http.ServerResponse and the two logs, as one value threaded through a   *)
(* handler.  An exception thrown inside an event callback is caught by     *)
(* nobody: the process dies (crashed) and the rest of the handler, and     *)
(* every later event, is skipped.                                          *)

CR == "CR"
LF == "LF"
SP == " "
COLON == ":"

HContentType == <<"Content-Type">>
HSetCookie == <<"Set-Cookie">>

NewResponse ==
    [statusCode |-> 200, headers |-> <<>>, headersSent |-> FALSE,
     sentStatus |-> 0, body |-> <<>>, finished |-> FALSE, endCalls |-> 0]

Throw(w) == [w EXCEPT !.crashed = TRUE]

\* Header names are case-insensitive.
LowerToken(t) ==
    CASE t = "Set-Cookie" -> "set-cookie"
      [] t = "Content-Type" -> "content-type"
      [] t = "Status" -> "status"
      [] t = "P" -> "p"
      [] t = "H" -> "h"
      [] OTHER -> t

toLowerCase(str) == [i \in 1..Len(str) |-> LowerToken(str[i])]

\* checkIsHttpToken / checkInvalidHeaderChar of Node's _http_common
ValidHeaderName(name) ==
    /\ name # <<>>
    /\ \A i \in 1..Len(name) : name[i] \notin {CR, LF, SP, COLON}

ValidHeaderValue(value) == \A i \in 1..Len(value) : value[i] \notin {CR, LF}

HeaderIndex(headers, name) ==
    {i \in 1..Len(headers) : toLowerCase(headers[i].name) = toLowerCase(name)}

\* res.getHeader: the stored entry, or None
ResGetHeader(w, name) ==
    LET idx == HeaderIndex(w.res.headers, name)
    IN  IF idx = {} THEN None ELSE w.res.headers[CHOOSE i \in idx : TRUE]

\* if (res.getHeader(name)): the header is set, and to an array or to a
\* string that is not empty
ResHeaderTruthy(w, name) ==
    LET idx == HeaderIndex(w.res.headers, name)
    IN  /\ idx # {}
        /\ LET e == w.res.headers[CHOOSE i \in idx : TRUE]
           IN  e.isArray \/ e.values[1] # <<>>

\* res.setHeader(name, values): values is the list stored (one string, or
\* an array when isArray).
ResSetHeader(w, name, values, isArray) ==
    IF w.crashed THEN w
    ELSE IF \/ w.res.headersSent
            \/ ~ValidHeaderName(name)
            \/ \E i \in 1..Len(values) : ~ValidHeaderValue(values[i])
    THEN Throw(w)
    ELSE LET entry == [name |-> name, values |-> values, isArray |-> isArray]
             idx == HeaderIndex(w.res.headers, name)
         IN  IF idx = {}
             THEN [w EXCEPT !.res.headers = Append(@, entry)]
             ELSE [w EXCEPT !.res.headers[CHOOSE i \in idx : TRUE] = entry]

ResSetStatusCode(w, code) ==
    IF w.crashed THEN w ELSE [w EXCEPT !.res.statusCode = code]

\* The status line and headers go out with the first write or with end.
FlushHead(r) ==
    IF r.headersSent THEN r
    ELSE [r EXCEPT !.headersSent = TRUE, !.sentStatus = r.statusCode]

\* res.write: after end the bytes are dropped.
ResWrite(w, chunk) ==
    IF w.crashed \/ w.res.finished THEN w
    ELSE [w EXCEPT !.res = [FlushHead(@) EXCEPT !.body = @ \o chunk]]

\* res.end: a second end sends nothing; endCalls counts the calls made.
ResEnd(w, chunk) ==
    IF w.crashed THEN w
    ELSE IF w.res.finished THEN [w EXCEPT !.res.endCalls = @ + 1]
    ELSE [w EXCEPT !.res = [FlushHead(@) EXCEPT !.body = @ \o chunk,
                                                 !.finished = TRUE,
                                                 !.endCalls = @ + 1]]

\* logger.js
logAccess(w, status) ==
    IF w.crashed THEN w ELSE [w EXCEPT !.alog = Append(@, status)]

logError(w, what) ==
    IF w.crashed THEN w ELSE [w EXCEPT !.elog = Append(@, what)]

\* String.prototype.indexOf, 0-based, -1 when absent
IndexOf(str, pat) ==
    LET hits == {i \in 0..(Len(str) - Len(pat)) :
                     SubSeq(str, i + 1, i + Len(pat)) = pat}
    IN  IF hits = {} THEN -1 ELSE CHOOSE i \in hits : \A j \in hits : i <= j

\* The Accept header: a string of tokens (a media type is one token), or
\* None when the request has none.
MediaJson == "application/json"
AcceptJson == <<MediaJson>>
AcceptHtml == <<"text/html">>
AcceptAbsent == None

\* A test that takes the header for JSON only when it is exactly the type.
clientWantsJsonExact(accept) == accept = AcceptJson

\* utils.js clientWantsJson: the header is there, is not empty and has
\* "application/json" somewhere in it
clientWantsJson(accept) ==
    /\ accept # AcceptAbsent
    /\ accept # <<>>
    /\ IndexOf(accept, AcceptJson) # -1

ErrorBody(accept, statusCode, msg) ==
    IF clientWantsJson(accept)
    THEN <<"{\"error\":", msg, "}">>
    ELSE <<"<h1>", ToString(statusCode), " Error</h1><p>", msg, "</p>">>

sendError(w, accept, statusCode, msg) ==
    LET w1 == ResSetStatusCode(w, statusCode)
        w2 == ResSetHeader(w1, HContentType,
                  <<IF clientWantsJson(accept) THEN <<"application/json">>
                                               ELSE <<"text/html">>>>, FALSE)
    IN  ResEnd(w2, ErrorBody(accept, statusCode, msg))

----------------------------------------------------------------------------
(* The php executor: framing of the interpreter's stdout                   *)

\* String.prototype.substring(from)
Substring(str, from) == SubSeq(str, from + 1, Len(str))

\* String.prototype.replace(/^\r?\n/, "")
StripLeadingNewline(str) ==
    IF Len(str) >= 2 /\ str[1] = CR /\ str[2] = LF THEN Substring(str, 2)
    ELSE IF Len(str) >= 1 /\ str[1] = LF THEN Substring(str, 1)
    ELSE str

\* String.prototype.split(/\r?\n/)
SplitLines(str) ==
    LET raw == Split(str, LF)
    IN  [i \in 1..Len(raw) |->
            IF i < Len(raw) /\ Len(raw[i]) > 0 /\ raw[i][Len(raw[i])] = CR
            THEN SubSeq(raw[i], 1, Len(raw[i]) - 1)
            ELSE raw[i]]

IsSpace(c) == c \in {CR, LF, SP}

RECURSIVE TrimLeft(_)
TrimLeft(str) ==
    IF Len(str) > 0 /\ IsSpace(str[1]) THEN TrimLeft(Tail(str)) ELSE str

RECURSIVE TrimRight(_)
TrimRight(str) ==
    IF Len(str) > 0 /\ IsSpace(str[Len(str)])
    THEN TrimRight(SubSeq(str, 1, Len(str) - 1)) ELSE str

Trim(str) == TrimRight(TrimLeft(str))

HStatus == <<"Status">>

\* The status code a CGI Status line names
StatusCodeOf(value) ==
    CASE value # <<>> /\ value[1] = "404" -> 404
      [] value # <<>> /\ value[1] = "500" -> 500
      [] value # <<>> /\ value[1] = "302" -> 302
      [] OTHER -> 200

\* A header loop that takes a Status line as the CGI status of the response.
ApplyHeaderLineCgiStatus(w, line) ==
    LET parts == Split(line, COLON)
    IN  IF Len(parts) >= 2
        THEN LET hName == Trim(parts[1])
                 hValue == Trim(JoinSegs(Tail(parts), COLON))
             IN  IF toLowerCase(hName) = toLowerCase(HStatus)
                 THEN ResSetStatusCode(w, StatusCodeOf(hValue))
                 ELSE IF toLowerCase(hName) = toLowerCase(HSetCookie)
                 THEN LET current == ResGetHeader(w, HSetCookie)
                      IN  IF ResHeaderTruthy(w, HSetCookie)
                          THEN ResSetHeader(w, HSetCookie,
                                            Append(current.values, hValue), TRUE)
                          ELSE ResSetHeader(w, HSetCookie, <<hValue>>, FALSE)
                 ELSE ResSetHeader(w, hName, <<hValue>>, FALSE)
        ELSE w

\* One header line of the interpreter applied to the response
ApplyHeaderLine(w, line) ==
    LET parts == Split(line, COLON)
    IN  IF Len(parts) >= 2
        THEN LET hName == Trim(parts[1])
                 hValue == Trim(JoinSegs(Tail(parts), COLON))
             IN  IF toLowerCase(hName) = toLowerCase(HSetCookie)
                 THEN LET current == ResGetHeader(w, HSetCookie)
                      IN  IF ResHeaderTruthy(w, HSetCookie)
                          THEN ResSetHeader(w, HSetCookie,
                                            Append(current.values, hValue), TRUE)
                          ELSE ResSetHeader(w, HSetCookie, <<hValue>>, FALSE)
                 ELSE ResSetHeader(w, hName, <<hValue>>, FALSE)
        ELSE w

RECURSIVE ApplyHeaderLines(_, _)
ApplyHeaderLines(w, lines) ==
    IF lines = <<>> THEN w
    ELSE ApplyHeaderLines(ApplyHeaderLine(w, Head(lines)), Tail(lines))

CRLFCRLF == <<CR, LF, CR, LF>>
LFLF == <<LF, LF>>

\* The framing state of one invocation
NewFraming ==
    [headerBuffer |-> <<>>, headersSent |-> FALSE, headerPart |-> None]

\* A data handler that goes back to accumulating headers after each chunk
\* of the body.
StdoutOnDataRearm(w, fr, data) ==
    IF ~fr.headersSent
    THEN LET headerBuffer == fr.headerBuffer \o data
             crlf == IndexOf(headerBuffer, CRLFCRLF)
             headerEnd == IF crlf = -1 THEN IndexOf(headerBuffer, LFLF) ELSE crlf
         IN  IF headerEnd # -1
             THEN LET headerPart == SubSeq(headerBuffer, 1, headerEnd)
                      remaining ==
                          StripLeadingNewline(Substring(headerBuffer, headerEnd + 2))
                      w1 == ApplyHeaderLines(w, SplitLines(headerPart))
                      w2 == ResWrite(w1, remaining)
                  IN  [w |-> w2,
                       fr |-> IF w2.crashed
                              THEN [fr EXCEPT !.headerBuffer = headerBuffer]
                              ELSE [headerBuffer |-> headerBuffer,
                                    headersSent |-> TRUE,
                                    headerPart |-> headerPart]]
             ELSE [w |-> w, fr |-> [fr EXCEPT !.headerBuffer = headerBuffer]]
    ELSE [w |-> ResWrite(w, data),
          fr |-> [fr EXCEPT !.headersSent = FALSE, !.headerBuffer = <<>>]]

\* php.stdout.on("data"): returns the framing state and the response
StdoutOnData(w, fr, data) ==
    IF ~fr.headersSent
    THEN LET headerBuffer == fr.headerBuffer \o data
             crlf == IndexOf(headerBuffer, CRLFCRLF)
             headerEnd == IF crlf = -1 THEN IndexOf(headerBuffer, LFLF) ELSE crlf
         IN  IF headerEnd # -1
             THEN LET headerPart == SubSeq(headerBuffer, 1, headerEnd)
                      remaining ==
                          StripLeadingNewline(Substring(headerBuffer, headerEnd + 2))
                      w1 == ApplyHeaderLines(w, SplitLines(headerPart))
                      w2 == ResWrite(w1, remaining)
                  IN  [w |-> w2,
                       fr |-> IF w2.crashed
                              THEN [fr EXCEPT !.headerBuffer = headerBuffer]
                              ELSE [headerBuffer |-> headerBuffer,
                                    headersSent |-> TRUE,
                                    headerPart |-> headerPart]]
             ELSE [w |-> w, fr |-> [fr EXCEPT !.headerBuffer = headerBuffer]]
    ELSE [w |-> ResWrite(w, data), fr |-> fr]

\* An end handler that flushes and logs but never ends the response.
StdoutOnEndLeaveOpen(w, fr) ==
    LET w1 == IF ~fr.headersSent /\ Len(fr.headerBuffer) > 0
              THEN ResWrite(w, fr.headerBuffer)
              ELSE w
    IN  logAccess(w1, w1.res.statusCode)

\* An end handler that ends the response without the buffered bytes.
StdoutOnEndNoFlush(w, fr) ==
    LET w2 == ResEnd(w, <<>>)
    IN  logAccess(w2, w2.res.statusCode)

\* php.stdout.on("end")
StdoutOnEnd(w, fr) ==
    LET w1 == IF ~fr.headersSent /\ Len(fr.headerBuffer) > 0
              THEN ResWrite(w, fr.headerBuffer)
              ELSE w
        w2 == ResEnd(w1, <<>>)
    IN  logAccess(w2, w2.res.statusCode)

----------------------------------------------------------------------------
(* The filesystem as the server sees it.  fsys.kind maps a path to         *)
(* "file", "dir" or "other" (device, socket, ...); a path outside its      *)
(* domain does not exist.  fsys.ht maps the path of a directive file to    *)
(* its lines; a line is a sequence of words, a word a sequence of          *)
(* characters (a keyword or a status code is one token).                   *)

StripTrailingSlash(p) ==
    IF Len(p) > 1 /\ p[Len(p)] = SLASH THEN SubSeq(p, 1, Len(p) - 1) ELSE p

\* What fs.stat reports: "absent" stands for the callback's err.
Kind(fsys, p) ==
    LET c == StripTrailingSlash(p)
        k == IF c \in DOMAIN fsys.kind THEN fsys.kind[c] ELSE "absent"
    IN  IF c # p /\ k # "dir" THEN "absent" ELSE k

existsSync(fsys, p) == Kind(fsys, p) # "absent"

\* path.extname: from the last '.' of the basename, unless it leads it
PathExtname(p) ==
    LET b == PathBasename(p)
        dots == {i \in 1..Len(b) : b[i] = DOT}
    IN  IF dots = {} THEN <<>>
        ELSE LET last == CHOOSE i \in dots : \A j \in dots : j <= i
             IN  IF last = 1 THEN <<>> ELSE SubSeq(b, last, Len(b))

ExtPhp == <<DOT, "p", "h", "p">>
ExtHtml == <<DOT, "h", "t", "m", "l">>
ExtHtm == <<DOT, "h", "t", "m">>

----------------------------------------------------------------------------
(* htaccess.js                                                             *)

HtaccessName == <<DOT, "htaccess">>
KwErrorDocument == "ErrorDocument"

\* The mapping after one line: a code maps to the document of its last line.
RECURSIVE ParseDirectives(_, _, _)
ParseDirectives(lines, curDir, errors) ==
    IF lines = <<>> THEN errors
    ELSE LET parts == Head(lines)
             isDirective == /\ Len(parts) >= 1
                            /\ Len(parts[1]) >= 1
                            /\ parts[1][1] = KwErrorDocument
         IN  IF isDirective /\ Len(parts) >= 3
             THEN LET code == parts[2]
                      named == JoinSegs(SubSeq(parts, 3, Len(parts)), SP)
                      doc == IF IsAbsolute(named) THEN named
                             ELSE PathJoin(curDir, named)
                      rest == SelectSeq(errors, LAMBDA e : e.code # code)
                  IN  ParseDirectives(Tail(lines), curDir,
                                      Append(rest, [code |-> code, doc |-> doc]))
             ELSE ParseDirectives(Tail(lines), curDir, errors)

\* A walk that goes on above a directive file and adds the mappings of the
\* ancestors for the codes not yet mapped.
RECURSIVE searchHtaccessInherit(_, _)
searchHtaccessInherit(fsys, curDir) ==
    LET htPath == PathJoin(curDir, HtaccessName)
        parent == PathDirname(curDir)
        above == IF parent = curDir
                 THEN [errors |-> <<>>, found |-> None, readFailed |-> FALSE]
                 ELSE searchHtaccessInherit(fsys, parent)
    IN  IF Kind(fsys, htPath) = "file"
        THEN LET own == ParseDirectives(fsys.ht[htPath], curDir, <<>>)
                 more == SelectSeq(above.errors,
                             LAMBDA e : \A i \in 1..Len(own) : own[i].code # e.code)
             IN  [errors |-> own \o more, found |-> curDir,
                  readFailed |-> above.readFailed]
        ELSE above

\* The walk from startDir up to the filesystem root; the first directory
\* that holds a directive file decides.  Returns the mapping, the directory
\* that decided (None if none) and whether reading failed.
RECURSIVE searchHtaccess(_, _)
searchHtaccess(fsys, curDir) ==
    LET htPath == PathJoin(curDir, HtaccessName)
        parent == PathDirname(curDir)
    IN  IF existsSync(fsys, htPath)
        THEN IF Kind(fsys, htPath) = "file"
             THEN [errors |-> ParseDirectives(fsys.ht[htPath], curDir, <<>>),
                   found |-> curDir, readFailed |-> FALSE]
             ELSE [errors |-> <<>>, found |-> curDir, readFailed |-> TRUE]
        ELSE IF parent = curDir
             THEN [errors |-> <<>>, found |-> None, readFailed |-> FALSE]
             ELSE searchHtaccess(fsys, parent)

\* An iteration that goes on to the parent without comparing it with the
\* current directory.
searchHtaccessIterationNoBreak(fsys, curDir) ==
    LET htPath == PathJoin(curDir, HtaccessName)
    IN  IF existsSync(fsys, htPath)
        THEN [returned |-> TRUE, curDir |-> curDir,
              errors |-> IF Kind(fsys, htPath) = "file"
                         THEN ParseDirectives(fsys.ht[htPath], curDir, <<>>)
                         ELSE <<>>,
              readFailed |-> Kind(fsys, htPath) # "file"]
        ELSE [returned |-> FALSE, curDir |-> PathDirname(curDir),
              errors |-> <<>>, readFailed |-> FALSE]

\* One iteration of the while loop of searchHtaccess: it returns (with the
\* mapping), or goes on with the parent directory.
searchHtaccessIteration(fsys, curDir) ==
    LET htPath == PathJoin(curDir, HtaccessName)
        parent == PathDirname(curDir)
    IN  IF existsSync(fsys, htPath)
        THEN [returned |-> TRUE, curDir |-> curDir,
              errors |-> IF Kind(fsys, htPath) = "file"
                         THEN ParseDirectives(fsys.ht[htPath], curDir, <<>>)
                         ELSE <<>>,
              readFailed |-> Kind(fsys, htPath) # "file"]
        ELSE IF parent = curDir
        THEN [returned |-> TRUE, curDir |-> curDir, errors |-> <<>>,
              readFailed |-> FALSE]
        ELSE [returned |-> FALSE, curDir |-> parent, errors |-> <<>>,
              readFailed |-> FALSE]

\* errors[String(statusCode)], None when undefined
LookupDoc(errors, statusCode) ==
    LET hits == {i \in 1..Len(errors) : errors[i].code = <<ToString(statusCode)>>}
    IN  IF hits = {} THEN None ELSE errors[CHOOSE i \in hits : TRUE].doc

----------------------------------------------------------------------------
(* router.js: what a callback decides.  A decision is the response and     *)
(* logs after the synchronous part, plus what was started: nothing, a      *)
(* read stream piped to the response, or the interpreter.                  *)

Decision(w, start, path, origin, status, lookup) ==
    [w |-> w, start |-> start, path |-> path, origin |-> origin,
     status |-> status, lookup |-> lookup]

Respond(w) == Decision(w, "none", None, "none", 0, None)

\* String.prototype.contains is not a function of the runtime: the call at
\* serveFile's user.ini test throws a TypeError.
StringContainsDefined == FALSE

\* The name user.ini is one token of a path
USER_INI == "user.ini"
UserIni == <<USER_INI>>

serveFile(w, accept, filePath) ==
    IF StartsWith(PathBasename(filePath), <<DOT>>)
    THEN LET w1 == sendError(w, accept, 404, "Not Found")
         IN  Respond(logAccess(w1, w1.res.statusCode))
    ELSE IF ~StringContainsDefined
    THEN Respond(Throw(w))
    ELSE IF IndexOf(toLowerCase(PathBasename(filePath)), UserIni) # -1
    THEN LET w1 == sendError(w, accept, 403, "Forbidden")
         IN  Respond(logAccess(w1, w1.res.statusCode))
    ELSE IF toLowerCase(PathExtname(filePath)) = ExtPhp
    THEN Decision(w, "php", filePath, "serveFile", 200, None)
    ELSE Decision(w, "static", filePath, "serveFile", 200, None)

\* The walk started at the path itself, whatever it is.
SearchDirTargetItself(fsys, notFoundPath) == notFoundPath

\* The directory processErrorDocument starts the directive-file walk in.
SearchDir(fsys, notFoundPath) ==
    IF existsSync(fsys, notFoundPath) /\ Kind(fsys, notFoundPath) = "dir"
    THEN notFoundPath
    ELSE PathDirname(notFoundPath)

\* A lookup that serves the document a directive names without testing
\* that it exists.
processErrorDocumentUnchecked(w, fsys, accept, statusCode, notFoundPath) ==
    LET searchDir == SearchDir(fsys, notFoundPath)
        found == searchHtaccess(fsys, searchDir)
        w0 == IF found.readFailed THEN logError(w, "Error reading .htaccess") ELSE w
        doc == LookupDoc(found.errors, statusCode)
    IN  IF doc # None
        THEN LET ext == toLowerCase(PathExtname(doc))
             IN  IF ext = ExtPhp
                 THEN Decision(w0, "php", doc, "errdoc", statusCode, searchDir)
                 ELSE Decision(
                          IF ext = ExtHtml \/ ext = ExtHtm
                          THEN ResSetHeader(w0, HContentType, <<<<"text/html">>>>, FALSE)
                          ELSE w0,
                          "static", doc, "errdoc", statusCode, searchDir)
        ELSE LET w1 == sendError(w0, accept, statusCode, "Not Found")
             IN  Decision(logAccess(w1, statusCode), "none", None, "none",
                          statusCode, searchDir)

processErrorDocument(w, fsys, accept, statusCode, notFoundPath) ==
    LET searchDir == SearchDir(fsys, notFoundPath)
        found == searchHtaccess(fsys, searchDir)
        w0 == IF found.readFailed THEN logError(w, "Error reading .htaccess") ELSE w
        doc == LookupDoc(found.errors, statusCode)
    IN  IF doc # None /\ existsSync(fsys, doc)
        THEN LET ext == toLowerCase(PathExtname(doc))
             IN  IF ext = ExtPhp
                 THEN Decision(w0, "php", doc, "errdoc", statusCode, searchDir)
                 ELSE Decision(
                          IF ext = ExtHtml \/ ext = ExtHtm
                          THEN ResSetHeader(w0, HContentType, <<<<"text/html">>>>, FALSE)
                          ELSE w0,
                          "static", doc, "errdoc", statusCode, searchDir)
        ELSE LET w1 == sendError(w0, accept, statusCode, "Not Found")
             IN  Decision(logAccess(w1, statusCode), "none", None, "none",
                          statusCode, searchDir)

COMMA == ","

\* domainConfig.domain.split(",").map(d => d.trim())
DomainNames(domain) ==
    LET parts == Split(domain, COMMA)
    IN  [k \in 1..Len(parts) |-> Trim(parts[k])]

\* domains.includes(host)
EntryMatches(entry, host) ==
    \E k \in 1..Len(DomainNames(entry.domain)) : DomainNames(entry.domain)[k] = host

\* config.js getHomeForHost: the first entry one of whose names is the host
getHomeForHost(config, host) ==
    LET hits == {i \in 1..Len(config) : EntryMatches(config[i], host)}
    IN  IF hits = {} THEN None
        ELSE config[CHOOSE i \in hits : \A j \in hits : i <= j].home

----------------------------------------------------------------------------
(* The environment executePhp hands to the interpreter.  A table is a      *)
(* sequence of [name, value] in insertion order; names and values are      *)
(* token sequences.  Request headers are a table too, names in lower case. *)

EnvHas(env, name) == \E i \in 1..Len(env) : env[i].name = name

EnvGet(env, name) ==
    IF EnvHas(env, name)
    THEN env[CHOOSE i \in 1..Len(env) : env[i].name = name].value
    ELSE None

\* env[name] = value
EnvPut(env, name, value) ==
    IF EnvHas(env, name)
    THEN [i \in 1..Len(env) |->
             IF env[i].name = name THEN [name |-> name, value |-> value]
             ELSE env[i]]
    ELSE Append(env, [name |-> name, value |-> value])

\* Object.assign(env, other)
RECURSIVE EnvAssign(_, _)
EnvAssign(env, other) ==
    IF other = <<>> THEN env
    ELSE EnvAssign(EnvPut(env, Head(other).name, Head(other).value), Tail(other))

\* config.js getEnvForHost: the env of the first entry naming the host
getEnvForHost(config, host) ==
    LET hits == {i \in 1..Len(config) : EntryMatches(config[i], host)}
    IN  IF hits = {} THEN <<>>
        ELSE config[CHOOSE i \in hits : \A j \in hits : i <= j].env

\* if (req.headers[name]): present and not the empty string
HeaderGiven(headers, name) ==
    EnvHas(headers, name) /\ EnvGet(headers, name) # <<>>

EnvName(n) == <<n>>
HttpEnvName(n) == <<"HTTP_", n>>
HName(n) == <<n>>

\* The variables executePhp assigns itself, in the order of assignment
ServerEntries(procEnv, method, url, headers, file) ==
    <<[name |-> EnvName("REQUEST_METHOD"), value |-> method],
      [name |-> EnvName("QUERY_STRING"), value |-> <<>>],
      [name |-> EnvName("DOCUMENT_ROOT"), value |-> PathDirname(file)],
      [name |-> EnvName("SCRIPT_FILENAME"), value |-> file],
      [name |-> EnvName("SCRIPT_NAME"), value |-> url],
      [name |-> EnvName("REQUEST_URI"), value |-> url],
      [name |-> EnvName("PATH_INFO"), value |-> url],
      [name |-> EnvName("SERVER_NAME"),
       value |-> IF HeaderGiven(headers, HName("host"))
                 THEN Split(EnvGet(headers, HName("host")), COLON)[1]
                 ELSE <<"localhost">>],
      [name |-> EnvName("HTTPS"), value |-> <<"on">>],
      [name |-> EnvName("SERVER_PORT"),
       value |-> IF HeaderGiven(procEnv, EnvName("PHOTON_PORT"))
                 THEN EnvGet(procEnv, EnvName("PHOTON_PORT")) ELSE <<"443">>],
      [name |-> EnvName("SERVER_PROTOCOL"), value |-> <<"HTTPS/1.1">>],
      [name |-> EnvName("REDIRECT_STATUS"), value |-> <<"200">>],
      [name |-> HttpEnvName("HOST"), value |-> EnvGet(headers, HName("host"))],
      [name |-> EnvName("REMOTE_ADDR"), value |-> <<"remoteAddress">>],
      [name |-> EnvName("REMOTE_PORT"), value |-> <<"remotePort">>],
      [name |-> EnvName("SERVER_ADDR"), value |-> <<"localAddress">>],
      [name |-> EnvName("SERVER_SOFTWARE"), value |-> <<"Photon">>],
      [name |-> EnvName("GATEWAY_INTERFACE"), value |-> <<"CGI/1.1">>]>>

\* The variables assigned only when the request carries their header
HContentTypeLower == <<"content", "-", "type">>
HContentLength == <<"content", "-", "length">>

ConditionalEntries(headers) ==
    LET pairs == <<[h |-> HContentTypeLower, n |-> EnvName("CONTENT_TYPE")],
                   [h |-> HContentLength, n |-> EnvName("CONTENT_LENGTH")],
                   [h |-> HName("authorization"), n |-> HttpEnvName("AUTHORIZATION")],
                   [h |-> HName("cookie"), n |-> HttpEnvName("COOKIE")]>>
        given == SelectSeq(pairs, LAMBDA q : HeaderGiven(headers, q.h))
    IN  [i \in 1..Len(given) |->
            [name |-> given[i].n, value |-> EnvGet(headers, given[i].h)]]

UpperToken(t) ==
    CASE t = "host" -> "HOST"
      [] t = "accept" -> "ACCEPT"
      [] t = "cookie" -> "COOKIE"
      [] t = "authorization" -> "AUTHORIZATION"
      [] t = "content" -> "CONTENT"
      [] t = "type" -> "TYPE"
      [] t = "length" -> "LENGTH"
      [] t = "x" -> "X"
      [] t = "a" -> "A"
      [] OTHER -> t

\* "HTTP_" + header.toUpperCase().replace(/-/g, "_")
HeaderEnvName(header) ==
    <<"HTTP_">> \o [i \in 1..Len(header) |->
                      IF UpperToken(header[i]) = "-" THEN "_"
                      ELSE UpperToken(header[i])]

\* for (let header in req.headers): copied unless the name is in the table
RECURSIVE AddHeaders(_, _)
AddHeaders(env, headers) ==
    IF headers = <<>> THEN env
    ELSE LET headerName == HeaderEnvName(Head(headers).name)
         IN  AddHeaders(IF EnvHas(env, headerName) THEN env
                        ELSE EnvPut(env, headerName, Head(headers).value),
                        Tail(headers))

\* A table in which the host's variables are applied after the server's.
BuildEnvHostLast(procEnv, hostEnv, method, url, headers, file) ==
    AddHeaders(
        EnvAssign(EnvAssign(EnvAssign(procEnv,
                                      ServerEntries(procEnv, method, url, headers, file)),
                            ConditionalEntries(headers)),
                  hostEnv),
        headers)

\* The table executePhp builds
BuildEnv(procEnv, hostEnv, method, url, headers, file) ==
    AddHeaders(
        EnvAssign(EnvAssign(EnvAssign(procEnv, hostEnv),
                            ServerEntries(procEnv, method, url, headers, file)),
                  ConditionalEntries(headers)),
        headers)

\* The index candidates, in probing order
IndexPhp == <<"i", "n", "d", "e", "x", DOT, "p", "h", "p">>
IndexHtml == <<"i", "n", "d", "e", "x", DOT, "h", "t", "m", "l">>
IndexHtm == <<"i", "n", "d", "e", "x", DOT, "h", "t", "m">>
indexes == <<IndexPhp, IndexHtml, IndexHtm>>

----------------------------------------------------------------------------
(* Path resolution as a unit: inputs drawn from bounded sets               *)

MaxPathLen == 5

RawTokens ==
    {SLASH, DOT, "a", BSL, USER_INI, PCT_DOT, PCT_SLASH, PCT_BSL, PCT_BAD}

RawPaths == UNION {[1..n -> RawTokens] : n \in 0..MaxPathLen}

HomeA == <<SLASH, "a">>
HomeAB == <<SLASH, "a", SLASH, "b">>
Homes == {HomeA, HomeAB}

VARIABLES
    rBase, rPath, rResult,          \* resolveSafe as a unit: inputs, result
    hHome,                          \* getHomeForHost as a unit: result
    eCode,                          \* sendError as a unit: the status code
    htErrors,                       \* searchHtaccess as a unit: result
    config,                         \* the loaded photon.json
    processEnv,                     \* the server's own environment
    reqHeaders,                     \* request headers other than Host, Accept
    reqHost, reqPath, reqAccept,    \* the request: Host, url pathname, Accept
    fs,                             \* the filesystem
    connection,                     \* the request's socket: open or destroyed
    pc, filePath, idxI,             \* handleRequest: position, target, index i
    res, accessLog, errorLog,       \* the response; access_log, error_log
    crashed,                        \* an exception escaped an event callback
    stream,                         \* the read stream piped to the response
    php,                            \* the interpreter process of the request
    statCalls, lookups, started,    \* what was done: fs.stat calls, directive
                                    \* walks, streams and interpreters started
    loaded, hostLookups             \* the snapshots loadConfig produced; the
                                    \* lookups made in config.js, with results

resolveVars == <<rBase, rPath, rResult, hHome, eCode, htErrors>>

\* searchHtaccess not called yet
NoErrors == [done |-> FALSE, errors |-> <<>>]
reqVars ==
    <<config, processEnv, reqHost, reqPath, reqAccept, reqHeaders, fs, connection>>
posVars == <<pc, filePath, idxI>>
worldVars == <<res, accessLog, errorLog, crashed>>
histVars == <<statCalls, lookups, started, loaded, hostLookups>>

vars == <<resolveVars, reqVars, posVars, worldVars, stream, php, histVars>>

World == [res |-> res, alog |-> accessLog, elog |-> errorLog, crashed |-> crashed]

SetWorld(w) ==
    /\ res' = w.res
    /\ accessLog' = w.alog
    /\ errorLog' = w.elog
    /\ crashed' = w.crashed

\* No interpreter was spawned.
NoPhp ==
    [state |-> "none", file |-> None, all |-> <<>>, out |-> <<>>,
     fr |-> NewFraming, stdoutEnded |-> FALSE, stderrLeft |-> 0,
     errorEmitted |-> FALSE, closed |-> FALSE, exitCode |-> 0, env |-> <<>>]

\* The process object right after spawn.  beh is what the process will do:
\* start or fail to start, the bytes it writes to stdout, whether it writes
\* to stderr, its exit code.
Spawned(file, beh, env) ==
    [state |-> IF beh.ok THEN "running" ELSE "failed", file |-> file,
     all |-> beh.output, out |-> beh.output,
     fr |-> NewFraming, stdoutEnded |-> FALSE, stderrLeft |-> beh.stderr,
     errorEmitted |-> FALSE, closed |-> FALSE, exitCode |-> beh.code,
     env |-> env]

NoStream == [state |-> "none", origin |-> "none", path |-> None, status |-> 0,
             chunks |-> 0]

IdleWorld ==
    /\ res = NewResponse
    /\ accessLog = <<>>
    /\ errorLog = <<>>
    /\ crashed = FALSE

EmptyFs == [kind |-> <<>>, ht |-> <<>>]

\* No request is in progress.
\* req.headers, in the order received
AllHeaders ==
    <<[name |-> HName("host"), value |-> reqHost]>>
    \o (IF reqAccept = AcceptAbsent THEN <<>>
        ELSE <<[name |-> HName("accept"), value |-> reqAccept]>>)
    \o reqHeaders

MethodGet == <<"GET">>

\* The table executePhp builds for this request
RequestEnv(file) ==
    BuildEnv(processEnv, getEnvForHost(config, reqHost), MethodGet, reqPath,
             AllHeaders, file)

IdleRouter ==
    /\ fs = EmptyFs
    /\ connection = "open"
    /\ pc = "none"
    /\ filePath = None
    /\ idxI = 0
    /\ stream = NoStream
    /\ statCalls = <<>>
    /\ lookups = <<>>
    /\ started = <<>>
    /\ loaded = <<config>>
    /\ hostLookups = <<>>

IdleRequest ==
    /\ reqPath = <<>>
    /\ reqAccept = AcceptAbsent
    /\ IdleRouter

NoRequest ==
    /\ config = <<>>
    /\ processEnv = <<>>
    /\ reqHost = <<>>
    /\ reqHeaders = <<>>
    /\ IdleRequest

InitResolve ==
    /\ rBase \in Homes
    /\ rPath \in RawPaths
    /\ rResult = NotRun
    /\ hHome = NotRun
    /\ htErrors = NoErrors
    /\ eCode = 0
    /\ NoRequest
    /\ IdleWorld
    /\ php = NoPhp

CallResolveSafe ==
    /\ rResult = NotRun
    /\ rResult' = resolveSafe(rBase, rPath)
    /\ UNCHANGED <<rBase, rPath, hHome, eCode, htErrors, reqVars, posVars, worldVars, stream, php, histVars>>

NextResolve == CallResolveSafe

SpecResolve == InitResolve /\ [][NextResolve]_vars

----------------------------------------------------------------------------
(* The interpreter's events                                                *)

\* A "data" event of stdout delivers the next bytes, in a chunk of any size.
PhpStdoutData ==
    /\ ~crashed
    /\ php.state = "running"
    /\ ~php.stdoutEnded
    /\ \E n \in 1..Len(php.out) :
           LET r == StdoutOnData(World, php.fr, SubSeq(php.out, 1, n))
           IN  /\ SetWorld(r.w)
               /\ php' = [php EXCEPT !.fr = r.fr, !.out = Substring(php.out, n)]
    /\ UNCHANGED <<resolveVars, reqVars, posVars, stream, histVars>>

\* "end" of stdout follows the last byte; a process that failed to start
\* emits "error" before anything else.
PhpStdoutEnd ==
    /\ ~crashed
    /\ ~php.stdoutEnded
    /\ IF php.state = "running" THEN php.out = <<>>
       ELSE php.state = "failed" /\ php.errorEmitted
    /\ SetWorld(StdoutOnEnd(World, php.fr))
    /\ php' = [php EXCEPT !.stdoutEnded = TRUE]
    /\ UNCHANGED <<resolveVars, reqVars, posVars, stream, histVars>>

\* What the interpreter writes to stderr: a byte stdout never carries
StderrByte == "E"

\* A stderr handler that also passes the bytes on to the client.
StderrOnDataForward(w, data) == ResWrite(logError(w, "PHP-CGI error"), data)

\* php.stderr.on("data")
StderrOnData(w, data) == logError(w, "PHP-CGI error")

PhpStderrData ==
    /\ ~crashed
    /\ php.state = "running"
    /\ php.stderrLeft > 0
    /\ SetWorld(StderrOnData(World, <<StderrByte>>))
    /\ php' = [php EXCEPT !.stderrLeft = @ - 1]
    /\ UNCHANGED <<resolveVars, reqVars, posVars, stream, histVars>>

\* An error handler that only logs.
ProcOnErrorLogOnly(w, accept) == logError(w, "Error executing PHP-CGI")

\* php.on("error")
ProcOnError(w, accept) ==
    logError(sendError(w, accept, 500, "PHP Execution Error"),
             "Error executing PHP-CGI")

PhpError ==
    /\ ~crashed
    /\ php.state = "failed"
    /\ ~php.errorEmitted
    /\ SetWorld(ProcOnError(World, reqAccept))
    /\ php' = [php EXCEPT !.errorEmitted = TRUE]
    /\ UNCHANGED <<resolveVars, reqVars, posVars, stream, histVars>>

\* A close handler that turns a non-zero exit code into an error response.
ProcOnCloseRespond(w, code) ==
    IF code # 0
    THEN logError(sendError(w, AcceptAbsent, 500, "PHP Execution Error"),
                  "PHP-CGI exited with code")
    ELSE w

\* php.on("close")
ProcOnClose(w, code) ==
    IF code # 0 THEN logError(w, "PHP-CGI exited with code") ELSE w

\* "close" follows the end of the process and of its stdio streams.
PhpClose ==
    /\ ~crashed
    /\ ~php.closed
    /\ IF php.state = "running" THEN php.stdoutEnded /\ php.stderrLeft = 0
       ELSE php.state = "failed" /\ php.errorEmitted
    /\ SetWorld(ProcOnClose(World, php.exitCode))
    /\ php' = [php EXCEPT !.closed = TRUE]
    /\ UNCHANGED <<resolveVars, reqVars, posVars, stream, histVars>>

----------------------------------------------------------------------------
(* The framing decoder as a unit: every interpreter output up to MaxOut    *)
(* bytes, under every chunking                                             *)

MaxOut == 5

CgiBytes == {CR, LF, "h", COLON}

CgiOutputs == UNION {[1..n -> CgiBytes] : n \in 0..MaxOut}

\* Header blocks of up to MaxHeaderLines lines, cookies (one of them with an
\* empty value) and a plain header repeated, followed by a one-byte body
MaxHeaderLines == 3

HeaderLines ==
    {<<"Set-Cookie", COLON, "c1">>, <<"Set-Cookie", COLON, "c2">>,
     <<"set-cookie", COLON, "c3">>, <<"Set-Cookie", COLON>>,
     <<"h", COLON, "v1">>, <<"h", COLON, "v2">>}

HeaderBlocks == UNION {[1..n -> HeaderLines] : n \in 1..MaxHeaderLines}

HeaderOutputs == {JoinSegs(block, LF) \o <<LF, LF, "b">> : block \in HeaderBlocks}

DocPhp == <<"e", DOT, "p", "h", "p">>
DocHtml == <<"e", DOT, "h", "t", "m", "l">>

InitCgi ==
    /\ rBase = HomeA
    /\ rPath = <<>>
    /\ rResult = NotRun
    /\ hHome = NotRun
    /\ htErrors = NoErrors
    /\ eCode = 0
    /\ NoRequest
    /\ IdleWorld
    /\ \E output \in CgiOutputs \cup HeaderOutputs :
           php = Spawned(PathJoin(HomeA, DocPhp),
                         [ok |-> TRUE, output |-> output, stderr |-> 0, code |-> 0],
                         RequestEnv(PathJoin(HomeA, DocPhp)))

NextCgi == PhpStdoutData \/ PhpStdoutEnd

SpecCgi == InitCgi /\ [][NextCgi]_vars

\* The decoder on outputs of up to MaxBoth bytes that hold a blank line of
\* each kind, LF LF and CR LF CR LF, under every chunking
MaxBoth == 6

BothOutputs ==
    {output \in UNION {[1..n -> CgiBytes] : n \in 0..MaxBoth} :
         IndexOf(output, LFLF) # -1 /\ IndexOf(output, CRLFCRLF) # -1}

InitCgiBoth ==
    /\ rBase = HomeA
    /\ rPath = <<>>
    /\ rResult = NotRun
    /\ hHome = NotRun
    /\ htErrors = NoErrors
    /\ eCode = 0
    /\ NoRequest
    /\ IdleWorld
    /\ \E output \in BothOutputs :
           php = Spawned(PathJoin(HomeA, DocPhp),
                         [ok |-> TRUE, output |-> output, stderr |-> 0, code |-> 0],
                         RequestEnv(PathJoin(HomeA, DocPhp)))

SpecCgiBoth == InitCgiBoth /\ [][NextCgi]_vars

\* The decoder on header blocks of up to MaxStatusLines lines that name a
\* CGI status, followed by a one-byte body, under every chunking
MaxStatusLines == 2

StatusLines ==
    {<<"Status", COLON, SP, "404">>, <<"Status", COLON, "500">>,
     <<"status", COLON, "302">>, <<"h", COLON, "v1">>}

StatusBlocks == UNION {[1..n -> StatusLines] : n \in 1..MaxStatusLines}

StatusOutputs == {JoinSegs(block, LF) \o <<LF, LF, "b">> : block \in StatusBlocks}

InitCgiStatus ==
    /\ rBase = HomeA
    /\ rPath = <<>>
    /\ rResult = NotRun
    /\ hHome = NotRun
    /\ htErrors = NoErrors
    /\ eCode = 0
    /\ NoRequest
    /\ IdleWorld
    /\ \E output \in StatusOutputs :
           php = Spawned(PathJoin(HomeA, DocPhp),
                         [ok |-> TRUE, output |-> output, stderr |-> 0, code |-> 0],
                         RequestEnv(PathJoin(HomeA, DocPhp)))

SpecCgiStatus == InitCgiStatus /\ [][NextCgi]_vars

----------------------------------------------------------------------------
(* One request through the router                                          *)

\* photon.json: one site, two names
HostA == <<"a", DOT, "test">>
HostWwwA == <<"www", DOT, "a", DOT, "test">>
HostX == <<"x", DOT, "test">>

PhotonConfig ==
    <<[domain |-> HostA \o <<COMMA, SP>> \o HostWwwA, home |-> HomeA,
       env |-> <<[name |-> EnvName("APP_ENV"), value |-> <<"prod">>]>>]>>

\* The server's environment and the extra headers of the requests
ServerProcessEnv == <<[name |-> EnvName("PATH"), value |-> <<"/usr/bin">>]>>
CookieHeader == <<[name |-> HName("cookie"), value |-> <<"k">>]>>

\* The fs.stat callback of handleRequest, with a target that is neither a
\* file nor a directory treated as missing.
OnStatOtherAsMissing(w, fsys, accept, target) ==
    LET k == Kind(fsys, target)
    IN  IF k = "absent" \/ k = "other"
        THEN processErrorDocument(w, fsys, accept, 404, target)
        ELSE IF k = "dir" THEN Decision(w, "probe", target, "none", 0, None)
        ELSE serveFile(w, accept, target)

\* The fs.stat callback of handleRequest
OnStat(w, fsys, accept, target) ==
    LET k == Kind(fsys, target)
    IN  IF k = "absent"
        THEN processErrorDocument(w, fsys, accept, 404, target)
        ELSE IF k = "dir" THEN Decision(w, "probe", target, "none", 0, None)
        ELSE IF k = "file" THEN serveFile(w, accept, target)
        ELSE LET w1 == sendError(w, accept, 403, "Forbidden")
             IN  Respond(logAccess(w1, w1.res.statusCode))

\* The fs.stat callback of next(i), i counted from 1
OnIndexStat(w, fsys, accept, target, i) ==
    LET indexPath == PathJoin(target, indexes[i])
    IN  IF Kind(fsys, indexPath) = "file"
        THEN serveFile(w, accept, indexPath)
        ELSE IF i + 1 > Len(indexes)
        THEN processErrorDocument(w, fsys, accept, 404, target)
        ELSE Decision(w, "probe", target, "none", 0, None)

\* What the interpreter may do once spawned
MaxStderr == 1

OutNoSeparator == <<"h">>
OutFramed == <<"h", COLON, "h", LF, LF, "h">>
PhpOutputs == {<<>>, OutNoSeparator, OutFramed}

PhpBehaviours ==
    {[ok |-> FALSE, output |-> <<>>, stderr |-> 0, code |-> -2]}
    \cup {[ok |-> TRUE, output |-> o, stderr |-> e, code |-> c] :
             o \in PhpOutputs, e \in 0..MaxStderr, c \in {0, 1}}

\* What reading a file may deliver: that many chunks
MaxChunks == 1

\* A lookup made in config.js and what it returned
HostLookup(fn, host, result) == [fn |-> fn, host |-> host, result |-> result]

\* The effects of a decision
Apply(d) ==
    /\ SetWorld(d.w)
    /\ lookups' = IF d.lookup = None THEN lookups ELSE Append(lookups, d.lookup)
    /\ started' = IF d.start \in {"static", "php"}
                  THEN Append(started, [how |-> d.start, path |-> d.path,
                                        origin |-> d.origin])
                  ELSE started
    /\ \E chunks \in 0..MaxChunks :
           stream' = IF d.start = "static"
                     THEN [state |-> "opening", origin |-> d.origin,
                           path |-> d.path, status |-> d.status,
                           chunks |-> chunks]
                     ELSE stream
    /\ \E beh \in PhpBehaviours :
           php' = IF d.start = "php"
                  THEN Spawned(d.path, beh, RequestEnv(d.path)) ELSE php
    /\ hostLookups' = IF d.start = "php"
                      THEN Append(hostLookups,
                                  HostLookup("env", reqHost,
                                             getEnvForHost(config, reqHost)))
                      ELSE hostLookups
    /\ UNCHANGED loaded

HandleRequest ==
    /\ ~crashed
    /\ pc = "start"
    /\ LET home == getHomeForHost(config, reqHost)
           target == IF home = None THEN None ELSE resolveSafe(home, reqPath)
       IN  IF home = None
           THEN LET w1 == sendError(World, reqAccept, 404, "No matching host found")
                IN  /\ SetWorld(logAccess(w1, w1.res.statusCode))
                    /\ pc' = "handled"
                    /\ UNCHANGED <<filePath, statCalls>>
           ELSE IF target = Thrown
           THEN /\ SetWorld(Throw(World))
                /\ pc' = "handled"
                /\ UNCHANGED <<filePath, statCalls>>
           ELSE IF target = None
           THEN LET w1 == sendError(World, reqAccept, 404, "Not Found")
                IN  /\ SetWorld(logAccess(w1, w1.res.statusCode))
                    /\ pc' = "handled"
                    /\ UNCHANGED <<filePath, statCalls>>
           ELSE /\ filePath' = target
                /\ statCalls' = Append(statCalls, target)
                /\ pc' = "stat"
                /\ UNCHANGED worldVars
    /\ hostLookups' = Append(hostLookups,
                             HostLookup("home", reqHost,
                                        getHomeForHost(config, reqHost)))
    /\ UNCHANGED <<resolveVars, reqVars, idxI, stream, php, lookups, started,
                   loaded>>

StatCallback ==
    /\ ~crashed
    /\ pc = "stat"
    /\ LET d == OnStat(World, fs, reqAccept, filePath)
       IN  /\ Apply(d)
           /\ IF d.start = "probe"
              THEN /\ idxI' = 1
                   /\ statCalls' = Append(statCalls, PathJoin(filePath, indexes[1]))
                   /\ pc' = "statIndex"
              ELSE /\ pc' = "handled"
                   /\ UNCHANGED <<idxI, statCalls>>
    /\ UNCHANGED <<resolveVars, reqVars, filePath>>

IndexStatCallback ==
    /\ ~crashed
    /\ pc = "statIndex"
    /\ LET d == OnIndexStat(World, fs, reqAccept, filePath, idxI)
       IN  /\ Apply(d)
           /\ IF d.start = "probe"
              THEN /\ idxI' = idxI + 1
                   /\ statCalls' = Append(statCalls,
                                          PathJoin(filePath, indexes[idxI + 1]))
                   /\ UNCHANGED pc
              ELSE /\ pc' = "handled"
                   /\ UNCHANGED <<idxI, statCalls>>
    /\ UNCHANGED <<resolveVars, reqVars, filePath>>

----------------------------------------------------------------------------
(* The events of a read stream piped to the response                       *)

\* serveFile's handler of "open": a basic content type, then the pipe
ServeFileOnOpen(w, path) ==
    LET ext == toLowerCase(PathExtname(path))
    IN  IF ~ResHeaderTruthy(w, HContentType)
        THEN ResSetHeader(w, HContentType,
                          <<IF ext = ExtHtml \/ ext = ExtHtm
                            THEN <<"text/html">>
                            ELSE <<"application/octet-stream">> >>, FALSE)
        ELSE w

StreamOpen ==
    /\ ~crashed
    /\ stream.state = "opening"
    /\ Kind(fs, stream.path) = "file"
    /\ SetWorld(IF stream.origin = "serveFile"
                THEN ServeFileOnOpen(World, stream.path) ELSE World)
    /\ stream' = [stream EXCEPT !.state = "flowing"]
    /\ UNCHANGED <<resolveVars, reqVars, posVars, php, histVars>>

StreamData ==
    /\ ~crashed
    /\ stream.state = "flowing"
    /\ stream.chunks > 0
    /\ SetWorld(ResWrite(World, <<"data">>))
    /\ stream' = [stream EXCEPT !.chunks = @ - 1]
    /\ UNCHANGED <<resolveVars, reqVars, posVars, php, histVars>>

\* "end": listeners run in the order they were added.  serveFile adds its
\* own before the pipe's, processErrorDocument after it.
StreamEnd ==
    /\ ~crashed
    /\ stream.state = "flowing"
    /\ stream.chunks = 0
    /\ SetWorld(IF stream.origin = "serveFile"
                THEN ResEnd(logAccess(World, 200), <<>>)
                ELSE logAccess(ResEnd(World, <<>>), stream.status))
    /\ stream' = [stream EXCEPT !.state = "ended"]
    /\ UNCHANGED <<resolveVars, reqVars, posVars, php, histVars>>

\* "error": serveFile listens; processErrorDocument does not, and an
\* "error" event nobody listens to is thrown.
StreamError ==
    /\ ~crashed
    /\ stream.state \in {"opening", "flowing"}
    /\ SetWorld(IF stream.origin = "serveFile"
                THEN logError(sendError(World, reqAccept, 500,
                                        "Internal Server Error"),
                              "Error streaming file")
                ELSE Throw(World))
    /\ stream' = [stream EXCEPT !.state = "failed"]
    /\ UNCHANGED <<resolveVars, reqVars, posVars, php, histVars>>

----------------------------------------------------------------------------
(* The server: requests against small document trees                       *)

DirD == <<SLASH, "a", SLASH, "d">>

ReqRoot == <<SLASH>>
ReqD == <<SLASH, "d">>
ReqHidden == <<SLASH, DOT, "h">>
ReqBadEscape == <<SLASH, PCT_BAD>>
ReqFPhp == <<SLASH, "d", SLASH, "f", DOT, "p", "h", "p">>
ReqFPhpUpper == <<SLASH, "d", SLASH, "f", DOT, "P", "H", "P">>
ReqFTxt == <<SLASH, "d", SLASH, "f", DOT, "t", "x", "t">>
ReqFiles == {ReqFPhp, ReqFPhpUpper, ReqFTxt}

\* Directive files: none, or one line
Line500 == <<<<KwErrorDocument>>, <<"500">>, DocHtml>>
Line404Html == <<<<KwErrorDocument>>, <<"404">>, DocHtml>>
Line404Php == <<<<KwErrorDocument>>, <<"404">>, DocPhp>>

NoHt == [present |-> FALSE, lines |-> <<>>]
HtOptions ==
    {NoHt} \cup {[present |-> TRUE, lines |-> <<l>>] :
                    l \in {Line500, Line404Html, Line404Php}}

NoIndex == [php |-> "absent", html |-> "absent", htm |-> "absent"]
IndexOptions == [php : {"absent", "file", "dir"}, html : {"absent", "file"},
                 htm : {"absent", "file"}]

Kinds == {"absent", "file", "dir", "other"}

\* A document tree under the home /a: the directory d (dKind), the
\* requested file in it (fKind), index candidates in idxDir, directive
\* files in the home and in d, and whether the documents they name exist.
Scenarios ==
    {[host |-> HostX, path |-> ReqRoot, dKind |-> "absent", fKind |-> "absent",
      idxDir |-> HomeA, idx |-> NoIndex, htHome |-> NoHt, htSub |-> NoHt,
      docs |-> FALSE]}
    \cup {[host |-> HostA, path |-> r, dKind |-> "absent",
           fKind |-> "absent", idxDir |-> HomeA, idx |-> NoIndex, htHome |-> h,
           htSub |-> NoHt, docs |-> TRUE] :
             r \in {ReqHidden, ReqBadEscape}, h \in HtOptions}
    \cup {[host |-> HostWwwA, path |-> ReqRoot, dKind |-> "absent",
           fKind |-> "absent", idxDir |-> HomeA, idx |-> i, htHome |-> h,
           htSub |-> NoHt, docs |-> x] :
             i \in IndexOptions, h \in HtOptions, x \in BOOLEAN}
    \cup {[host |-> HostA, path |-> ReqD, dKind |-> "dir", fKind |-> "absent",
           idxDir |-> DirD, idx |-> i, htHome |-> h, htSub |-> g, docs |-> x] :
             i \in IndexOptions, h \in HtOptions, g \in HtOptions, x \in BOOLEAN}
    \cup {[host |-> HostA, path |-> ReqD, dKind |-> k, fKind |-> "absent",
           idxDir |-> DirD, idx |-> NoIndex, htHome |-> h, htSub |-> NoHt,
           docs |-> x] :
             k \in Kinds \ {"dir"}, h \in HtOptions, x \in BOOLEAN}
    \cup {[host |-> HostA, path |-> r, dKind |-> "dir", fKind |-> k,
           idxDir |-> DirD, idx |-> NoIndex, htHome |-> h, htSub |-> g,
           docs |-> x] :
             r \in ReqFiles, k \in Kinds, h \in HtOptions, g \in HtOptions,
             x \in BOOLEAN}
    \cup {[host |-> HostA, path |-> r, dKind |-> "absent", fKind |-> "absent",
           idxDir |-> DirD, idx |-> NoIndex, htHome |-> h, htSub |-> NoHt,
           docs |-> x] :
             r \in ReqFiles, h \in HtOptions, x \in BOOLEAN}

Entry(p, k) == [p |-> p, k |-> k]

\* The documents a directive file in dir names
DocsOf(dir, ht) ==
    {PathJoin(dir, ht.lines[i][3]) : i \in 1..Len(ht.lines)}

TreeEntries(sc) ==
    LET target == PathJoin(HomeA, sc.path)
        present == {e \in
            {Entry(DirD, sc.dKind), Entry(target, sc.fKind),
             Entry(PathJoin(sc.idxDir, IndexPhp), sc.idx.php),
             Entry(PathJoin(sc.idxDir, IndexHtml), sc.idx.html),
             Entry(PathJoin(sc.idxDir, IndexHtm), sc.idx.htm)} : e.k # "absent"}
        hts == {Entry(PathJoin(HomeA, HtaccessName), "file") : x \in
                    {y \in {1} : sc.htHome.present}}
               \cup {Entry(PathJoin(DirD, HtaccessName), "file") : x \in
                    {y \in {1} : sc.htSub.present}}
        docs == IF sc.docs
                THEN {Entry(q, "file") : q \in DocsOf(HomeA, sc.htHome)
                                               \cup DocsOf(DirD, sc.htSub)}
                ELSE {}
    IN  {Entry(<<SLASH>>, "dir"), Entry(HomeA, "dir")}
        \cup {e \in present : e.p \notin {<<SLASH>>, HomeA}}
        \cup hts \cup docs

MakeFs(sc) ==
    LET entries == TreeEntries(sc)
        paths == {e.p : e \in entries}
        htPaths == {PathJoin(HomeA, HtaccessName) : x \in
                        {y \in {1} : sc.htHome.present}}
                   \cup {PathJoin(DirD, HtaccessName) : x \in
                        {y \in {1} : sc.htSub.present}}
    IN  [kind |-> [q \in paths |-> (CHOOSE e \in entries : e.p = q).k],
         ht |-> [q \in htPaths |->
                    IF q = PathJoin(HomeA, HtaccessName)
                    THEN sc.htHome.lines ELSE sc.htSub.lines]]

AcceptValues == {AcceptJson, AcceptHtml, AcceptAbsent}

Init ==
    /\ rBase = HomeA
    /\ rPath = <<>>
    /\ rResult = NotRun
    /\ hHome = NotRun
    /\ htErrors = NoErrors
    /\ eCode = 0
    /\ \E sc \in Scenarios :
           /\ reqHost = sc.host
           /\ reqPath = sc.path
           /\ fs = MakeFs(sc)
    /\ config = PhotonConfig
    /\ processEnv = ServerProcessEnv
    /\ reqHeaders = CookieHeader
    /\ reqAccept \in AcceptValues
    /\ connection = "open"
    /\ pc = "start"
    /\ filePath = None
    /\ idxI = 0
    /\ IdleWorld
    /\ stream = NoStream
    /\ php = NoPhp
    /\ statCalls = <<>>
    /\ lookups = <<>>
    /\ started = <<>>
    /\ loaded = <<config>>
    /\ hostLookups = <<>>

Next ==
    \/ HandleRequest
    \/ StatCallback
    \/ IndexStatCallback
    \/ StreamOpen
    \/ StreamData
    \/ StreamEnd
    \/ StreamError
    \/ PhpStdoutData
    \/ PhpStdoutEnd
    \/ PhpStderrData
    \/ PhpError
    \/ PhpClose

Spec == Init /\ [][Next]_vars

----------------------------------------------------------------------------
(* Reloading the configuration while a request is in progress              *)

\* What /etc/photon/photon.json may hold when it is read again: the list
\* the server started with, a list with another entry in front and another
\* home and env for the site, or text JSON.parse rejects.
ConfigFile(parses, domains) == [parses |-> parses, domains |-> domains]

ReloadedConfig ==
    <<[domain |-> HostX, home |-> HomeA, env |-> <<>>],
      [domain |-> HostA \o <<COMMA, SP>> \o HostWwwA, home |-> HomeAB,
       env |-> <<[name |-> EnvName("APP_ENV"), value |-> <<"staging">>]>>]>>

ConfigFiles ==
    {ConfigFile(TRUE, PhotonConfig), ConfigFile(TRUE, ReloadedConfig),
     ConfigFile(FALSE, <<>>)}

\* A reload that overwrites the entries of the current list one by one and
\* is seen by a reader after the first entry.
loadConfigInPlace(current, file) ==
    IF ~file.parses THEN [config |-> current, threw |-> TRUE]
    ELSE [config |-> [i \in 1..Len(current) |->
                         IF i = 1 THEN file.domains[1] ELSE current[i]],
          threw |-> FALSE]

\* config.js loadConfig: read, parse, then assign the module variable; a
\* parse error leaves the variable as it was and propagates.
loadConfig(current, file) ==
    IF ~file.parses THEN [config |-> current, threw |-> TRUE]
    ELSE [config |-> file.domains, threw |-> FALSE]

MaxReloads == 1

\* server.js process.on("SIGHUP")
Sighup ==
    /\ ~crashed
    /\ Len(loaded) <= MaxReloads
    /\ \E file \in ConfigFiles :
           LET w1 == logError(World, "Received SIGHUP, reloading configuration.")
               r == loadConfig(config, file)
           IN  /\ SetWorld(IF r.threw THEN Throw(w1) ELSE w1)
               /\ config' = r.config
               /\ loaded' = IF r.threw THEN loaded ELSE Append(loaded, file.domains)
    /\ UNCHANGED <<resolveVars, processEnv, reqHost, reqPath, reqAccept,
                   reqHeaders, fs, connection, posVars, stream, php, statCalls,
                   lookups, started, hostLookups>>

NextReload == Next \/ Sighup

\* The lookups do not depend on the Accept header: requests without one
InitReload == Init /\ reqAccept = AcceptAbsent

SpecReload == InitReload /\ [][NextReload]_vars

----------------------------------------------------------------------------
(* The idle timeout of the request's socket                                *)

\* A timeout callback that answers the client before closing.
OnIdleTimeoutRespond(w) ==
    logError(sendError(w, AcceptAbsent, 408, "Request Timeout"), "Idle timeout")

\* The callback handleRequest passes to req.socket.setTimeout; req.destroy()
\* follows the log line.
OnIdleTimeout(w) == logError(w, "Idle timeout")

\* The socket was silent for IDLE_TIMEOUT_MS after handleRequest armed the
\* timer.  Time is not measured: the silence may fall between any two events
\* of the request, or after the last one.
IdleTimeout ==
    /\ ~crashed
    /\ pc # "start"
    /\ connection = "open"
    /\ SetWorld(OnIdleTimeout(World))
    /\ connection' = "destroyed"
    /\ UNCHANGED <<resolveVars, config, processEnv, reqHost, reqPath, reqAccept,
                   reqHeaders, fs, posVars, stream, php, histVars>>

NextIdle == Next \/ IdleTimeout

\* The timer fires once the socket has stayed silent: the callback is not
\* postponed forever.
SpecIdle == Init /\ [][NextIdle]_vars /\ WF_vars(IdleTimeout)

----------------------------------------------------------------------------
(* Host resolution as a unit: configurations of up to MaxEntries entries   *)

MaxEntries == 2

STAR == "*"

DomExample == <<"example", DOT, "com">>
DomWildExample == <<STAR, DOT, "example", DOT, "com">>
DomOther == <<"other", DOT, "com">>
DomList == <<"foo", DOT, "example", DOT, "com", COMMA, SP, "example", DOT, "com">>

UnitEntries ==
    [domain : {DomExample, DomWildExample, DomOther, DomList}, home : Homes,
     env : {<<>>}]

UnitConfigs == UNION {[1..n -> UnitEntries] : n \in 1..MaxEntries}

\* Host headers: an optional label, a name in either letter case, an
\* optional port
UnitHosts ==
    {sub \o name \o <<DOT, "com">> \o port :
        sub \in {<<>>, <<"foo", DOT>>, <<"FOO", DOT>>},
        name \in {<<"example">>, <<"EXAMPLE">>, <<"other">>},
        port \in {<<>>, <<COLON, "443">>}}

InitHost ==
    /\ rBase = HomeA
    /\ rPath = <<>>
    /\ rResult = NotRun
    /\ hHome = NotRun
    /\ htErrors = NoErrors
    /\ eCode = 0
    /\ config \in UnitConfigs
    /\ processEnv = <<>>
    /\ reqHost \in UnitHosts
    /\ reqHeaders = <<>>
    /\ IdleRequest
    /\ IdleWorld
    /\ php = NoPhp

CallGetHomeForHost ==
    /\ hHome = NotRun
    /\ hHome' = getHomeForHost(config, reqHost)
    /\ UNCHANGED <<rBase, rPath, rResult, eCode, htErrors, reqVars, posVars,
                   worldVars, stream, php, histVars>>

NextHost == CallGetHomeForHost

SpecHost == InitHost /\ [][NextHost]_vars

----------------------------------------------------------------------------
(* The interpreter's environment as a unit: host overrides, server         *)
(* environment and request headers drawn from small tables                 *)

\* The entries of a table whose names are in S
SubTable(table, S) == SelectSeq(table, LAMBDA e : e.name \in S)

SubTables(table) ==
    {SubTable(table, S) : S \in SUBSET {table[i].name : i \in 1..Len(table)}}

HostOverrides ==
    <<[name |-> EnvName("REQUEST_METHOD"), value |-> <<"host-value">>],
      [name |-> EnvName("SCRIPT_FILENAME"), value |-> <<"host-value">>],
      [name |-> HttpEnvName("HOST"), value |-> <<"host-value">>],
      [name |-> <<"HTTP_", "X", "_", "A">>, value |-> <<"host-value">>],
      [name |-> EnvName("APP_ENV"), value |-> <<"host-value">>]>>

ProcessVariables ==
    <<[name |-> EnvName("PHOTON_PORT"), value |-> <<"8443">>],
      [name |-> EnvName("REDIRECT_STATUS"), value |-> <<"process-value">>]>>

ExtraHeaders ==
    <<[name |-> <<"x", "-", "a">>, value |-> <<"1">>],
      [name |-> <<"x", "_", "a">>, value |-> <<"2">>],
      [name |-> HName("cookie"), value |-> <<"k">>],
      [name |-> HContentTypeLower, value |-> <<"t">>]>>

ScriptPath == PathJoin(HomeA, ReqFPhp)

InitEnv ==
    /\ rBase = HomeA
    /\ rPath = <<>>
    /\ rResult = NotRun
    /\ hHome = NotRun
    /\ htErrors = NoErrors
    /\ eCode = 0
    /\ \E e \in SubTables(HostOverrides) :
           config = <<[domain |-> HostA, home |-> HomeA, env |-> e]>>
    /\ processEnv \in SubTables(ProcessVariables)
    /\ reqHost = HostA
    /\ reqHeaders \in SubTables(ExtraHeaders)
    /\ IdleRequest
    /\ IdleWorld
    /\ php = NoPhp

\* executePhp up to and including spawn
CallExecutePhp ==
    /\ php.state = "none"
    /\ php' = Spawned(ScriptPath,
                      [ok |-> TRUE, output |-> <<>>, stderr |-> 0, code |-> 0],
                      RequestEnv(ScriptPath))
    /\ UNCHANGED <<resolveVars, reqVars, posVars, worldVars, stream, histVars>>

NextEnv == CallExecutePhp

SpecEnv == InitEnv /\ [][NextEnv]_vars

----------------------------------------------------------------------------
(* Two requests served by the same process: executePhp runs to its spawn   *)
(* call without yielding, so two requests in flight at once call it one    *)
(* after the other, in either order of their headers.  What an invocation  *)
(* leaves behind in the process is process.env.                            *)

\* An invocation that assigns into process.env instead of into a new object:
\* Object.assign(process.env, getEnvForHost(host)).
executePhpEnvInPlace(procEnv, hostEnv, method, url, headers, file) ==
    LET env == BuildEnv(procEnv, hostEnv, method, url, headers, file)
    IN  [env |-> env, processEnv |-> env]

\* executePhp up to spawn: Object.assign({}, process.env, ...) copies into a
\* new object and every later assignment goes to that object.
executePhpEnv(procEnv, hostEnv, method, url, headers, file) ==
    [env |-> BuildEnv(procEnv, hostEnv, method, url, headers, file),
     processEnv |-> procEnv]

\* Requests in flight at once
MaxRequests == 2

\* The headers the later requests choose from
LaterHeaders == SubTable(ExtraHeaders, {<<"x", "-", "a">>, HName("cookie")})

InitEnvPair == InitEnv

ExecutePhpCall ==
    /\ php.state = "none"
    /\ LET r == executePhpEnv(processEnv, getEnvForHost(config, reqHost),
                              MethodGet, reqPath, AllHeaders, ScriptPath)
       IN  /\ php' = Spawned(ScriptPath,
                             [ok |-> TRUE, output |-> <<>>, stderr |-> 0,
                              code |-> 0],
                             r.env)
           /\ processEnv' = r.processEnv
    /\ started' = Append(started, [how |-> "php", path |-> ScriptPath,
                                   origin |-> "executePhp"])
    /\ UNCHANGED <<resolveVars, config, reqHost, reqPath, reqAccept, reqHeaders,
                   fs, connection, posVars, worldVars, stream, statCalls,
                   lookups, loaded, hostLookups>>

\* The other request reaches executePhp: its own headers, its own interpreter
AnotherRequest ==
    /\ php.state # "none"
    /\ Len(started) < MaxRequests
    /\ reqHeaders' \in SubTables(LaterHeaders)
    /\ php' = NoPhp
    /\ UNCHANGED <<resolveVars, config, processEnv, reqHost, reqPath, reqAccept,
                   fs, connection, posVars, worldVars, stream, histVars>>

NextEnvPair == ExecutePhpCall \/ AnotherRequest

SpecEnvPair == InitEnvPair /\ [][NextEnvPair]_vars

----------------------------------------------------------------------------
(* sendError as a unit: Accept headers of up to MaxAcceptLen tokens, the   *)
(* status codes the server sends, a response not yet begun                 *)

MaxAcceptLen == 3

AcceptTokens == {MediaJson, "text/html", COMMA, "APPLICATION/JSON"}

AcceptHeaders ==
    {AcceptAbsent} \cup UNION {[1..n -> AcceptTokens] : n \in 0..MaxAcceptLen}

ErrorCodes == {403, 404, 500}

InitError ==
    /\ rBase = HomeA
    /\ rPath = <<>>
    /\ rResult = NotRun
    /\ hHome = NotRun
    /\ htErrors = NoErrors
    /\ eCode \in ErrorCodes
    /\ config = <<>>
    /\ processEnv = <<>>
    /\ reqHost = <<>>
    /\ reqHeaders = <<>>
    /\ reqPath = <<>>
    /\ reqAccept \in AcceptHeaders
    /\ IdleRouter
    /\ IdleWorld
    /\ php = NoPhp

CallSendError ==
    /\ pc = "none"
    /\ SetWorld(sendError(World, reqAccept, eCode, "Not Found"))
    /\ pc' = "handled"
    /\ UNCHANGED <<resolveVars, reqVars, filePath, idxI, stream, php, histVars>>

NextError == CallSendError

SpecError == InitError /\ [][NextError]_vars

----------------------------------------------------------------------------
(* The read stream of serveFile as a unit: a file that opens or not, is    *)
(* read in up to MaxChunks chunks and may fail at any point                *)

StreamedFiles == {PathJoin(HomeA, ReqFTxt), PathJoin(HomeA, DocHtml)}

FsWith(file) == [kind |-> [q \in {file} |-> "file"], ht |-> <<>>]

InitStream ==
    /\ rBase = HomeA
    /\ rPath = <<>>
    /\ rResult = NotRun
    /\ hHome = NotRun
    /\ htErrors = NoErrors
    /\ eCode = 0
    /\ config = <<>>
    /\ processEnv = <<>>
    /\ reqHost = <<>>
    /\ reqHeaders = <<>>
    /\ reqPath = <<>>
    /\ reqAccept \in AcceptHeaders
    /\ connection = "open"
    /\ pc = "handled"
    /\ idxI = 0
    /\ \E file \in StreamedFiles, chunks \in 0..MaxChunks :
           /\ filePath = file
           /\ fs \in {EmptyFs, FsWith(file)}
           /\ stream = [state |-> "opening", origin |-> "serveFile",
                        path |-> file, status |-> 200, chunks |-> chunks]
    /\ statCalls = <<>>
    /\ lookups = <<>>
    /\ started = <<>>
    /\ loaded = <<config>>
    /\ hostLookups = <<>>
    /\ IdleWorld
    /\ php = NoPhp

NextStream == StreamOpen \/ StreamData \/ StreamEnd \/ StreamError

SpecStream == InitStream /\ [][NextStream]_vars

----------------------------------------------------------------------------
(* A directive file as a unit: files of up to MaxLines lines in /a/d       *)

MaxLines == 3

DocAbsolute == <<SLASH, "x", SLASH>> \o DocHtml

\* Lines as split on white space: directives for 404 and 500 with relative
\* and absolute documents, a directive cut short, another keyword, a word
\* that begins with the keyword, a comment.
DirectiveLines ==
    {Line404Html, Line404Php, Line500,
     <<<<KwErrorDocument>>, <<"404">>, DocAbsolute>>,
     <<<<KwErrorDocument>>, <<"404">>>>,
     <<<<"Options">>, <<"404">>, DocPhp>>,
     <<<<KwErrorDocument, "Old">>, <<"404">>, DocPhp>>,
     <<<<"#">>, <<KwErrorDocument>>, <<"404">>, DocPhp>>}

DirectiveFiles == UNION {[1..n -> DirectiveLines] : n \in 0..MaxLines}

FsWithHt(dir, lines) ==
    [kind |-> [q \in {PathJoin(dir, HtaccessName)} |-> "file"],
     ht |-> [q \in {PathJoin(dir, HtaccessName)} |-> lines]]

InitHt ==
    /\ rBase = HomeA
    /\ rPath = <<>>
    /\ rResult = NotRun
    /\ hHome = NotRun
    /\ htErrors = NoErrors
    /\ eCode = 0
    /\ config = <<>>
    /\ processEnv = <<>>
    /\ reqHost = <<>>
    /\ reqHeaders = <<>>
    /\ reqPath = <<>>
    /\ reqAccept = AcceptAbsent
    /\ connection = "open"
    /\ pc = "none"
    /\ filePath = None
    /\ idxI = 0
    /\ \E lines \in DirectiveFiles : fs = FsWithHt(DirD, lines)
    /\ stream = NoStream
    /\ statCalls = <<>>
    /\ lookups = <<>>
    /\ started = <<>>
    /\ loaded = <<config>>
    /\ hostLookups = <<>>
    /\ IdleWorld
    /\ php = NoPhp

CallSearchHtaccess ==
    /\ ~htErrors.done
    /\ htErrors' = [done |-> TRUE, errors |-> searchHtaccess(fs, DirD).errors]
    /\ UNCHANGED <<rBase, rPath, rResult, hHome, eCode, reqVars, posVars,
                   worldVars, stream, php, histVars>>

NextHt == CallSearchHtaccess

SpecHt == InitHt /\ [][NextHt]_vars

----------------------------------------------------------------------------
(* The upward walk of searchHtaccess, iteration by iteration: start        *)
(* directories of up to MaxStartLen tokens, absolute and relative, with    *)
(* doubled and trailing separators; no directive file, one in some         *)
(* directory, or a directory in the place of one.  lookups holds the       *)
(* directories the walk has looked in.                                     *)

MaxStartLen == 4

StartDirs == UNION {[1..n -> {SLASH, "a", "d"}] : n \in 0..MaxStartLen}

HtDirs == {<<SLASH>>, HomeA, DirD, <<"a">>, <<DOT>>}

FsWithHtDir(dir) ==
    [kind |-> [q \in {PathJoin(dir, HtaccessName)} |-> "dir"], ht |-> <<>>]

WalkFilesystems ==
    {EmptyFs} \cup {FsWithHt(dir, <<Line404Html>>) : dir \in HtDirs}
    \cup {FsWithHtDir(HomeA)}

\* More iterations than any walk of the model needs
MaxWalk == 8

InitWalk ==
    /\ rBase = HomeA
    /\ rPath = <<>>
    /\ rResult = NotRun
    /\ hHome = NotRun
    /\ htErrors = NoErrors
    /\ eCode = 0
    /\ config = <<>>
    /\ processEnv = <<>>
    /\ reqHost = <<>>
    /\ reqHeaders = <<>>
    /\ reqPath = <<>>
    /\ reqAccept = AcceptAbsent
    /\ connection = "open"
    /\ pc = "none"
    /\ filePath = None
    /\ idxI = 0
    /\ fs \in WalkFilesystems
    /\ stream = NoStream
    /\ statCalls = <<>>
    /\ \E startDir \in StartDirs : lookups = <<startDir>>
    /\ started = <<>>
    /\ loaded = <<config>>
    /\ hostLookups = <<>>
    /\ IdleWorld
    /\ php = NoPhp

WalkIteration ==
    /\ ~htErrors.done
    /\ Len(lookups) <= MaxWalk
    /\ LET r == searchHtaccessIteration(fs, lookups[Len(lookups)])
       IN  /\ htErrors' = [done |-> r.returned, errors |-> r.errors]
           /\ lookups' = IF r.returned THEN lookups ELSE Append(lookups, r.curDir)
           /\ SetWorld(IF r.readFailed
                       THEN logError(World, "Error reading .htaccess")
                       ELSE World)
    /\ UNCHANGED <<rBase, rPath, rResult, hHome, eCode, reqVars, posVars,
                   stream, php, statCalls, started, loaded, hostLookups>>

NextWalk == WalkIteration

SpecWalk == InitWalk /\ [][NextWalk]_vars

----------------------------------------------------------------------------
(* processErrorDocument as a unit: the target /a/d/f.txt of a request to   *)
(* the site a.test (home /a) is missing; one directive file, in /a/d, in   *)
(* the home or in the filesystem root, maps 404 to a document named        *)
(* relative to it, by an absolute path, through "..", or with a leading    *)
(* dot; the document exists or not.                                        *)

DocEscaping == DotDot \o <<SLASH>> \o DotDot \o <<SLASH, "x", SLASH>> \o DocHtml
DocHidden == <<DOT>> \o DocHtml

ErrdocLines ==
    {Line404Html, Line404Php,
     <<<<KwErrorDocument>>, <<"404">>, DocAbsolute>>,
     <<<<KwErrorDocument>>, <<"404">>, DocEscaping>>,
     <<<<KwErrorDocument>>, <<"404">>, DocHidden>>}

HtPlaces == {<<SLASH>>, HomeA, DirD}

FsErrdoc(place, line, exists) ==
    LET htPath == PathJoin(place, HtaccessName)
        doc == ParseDirectives(<<line>>, place, <<>>)[1].doc
    IN  [kind |-> [q \in {htPath} \cup (IF exists THEN {doc} ELSE {}) |-> "file"],
         ht |-> [q \in {htPath} |-> <<line>>]]

InitErrdoc ==
    /\ rBase = HomeA
    /\ rPath = <<>>
    /\ rResult = NotRun
    /\ hHome = NotRun
    /\ htErrors = NoErrors
    /\ eCode = 0
    /\ config = PhotonConfig
    /\ processEnv = ServerProcessEnv
    /\ reqHost = HostA
    /\ reqHeaders = CookieHeader
    /\ reqPath = ReqFTxt
    /\ reqAccept \in AcceptValues
    /\ connection = "open"
    /\ pc = "none"
    /\ filePath = PathJoin(HomeA, ReqFTxt)
    /\ idxI = 0
    /\ fs \in {EmptyFs} \cup {FsErrdoc(place, line, exists) :
                                  place \in HtPlaces, line \in ErrdocLines,
                                  exists \in BOOLEAN}
    /\ stream = NoStream
    /\ statCalls = <<>>
    /\ lookups = <<>>
    /\ started = <<>>
    /\ loaded = <<config>>
    /\ hostLookups = <<>>
    /\ IdleWorld
    /\ php = NoPhp

CallProcessErrorDocument ==
    /\ ~crashed
    /\ pc = "none"
    /\ Apply(processErrorDocument(World, fs, reqAccept, 404, filePath))
    /\ pc' = "handled"
    /\ UNCHANGED <<resolveVars, reqVars, filePath, idxI, statCalls>>

NextErrdoc ==
    \/ CallProcessErrorDocument
    \/ StreamOpen
    \/ StreamData
    \/ StreamEnd
    \/ StreamError
    \/ PhpStdoutData
    \/ PhpStdoutEnd
    \/ PhpStderrData
    \/ PhpError
    \/ PhpClose

SpecErrdoc == InitErrdoc /\ [][NextErrdoc]_vars

----------------------------------------------------------------------------
(* Containment                                                             *)

\* q lies inside home root B: B's segments are a prefix of q's segments and
\* q holds no parent-directory segment.
Inside(B, q) ==
    LET b == ResolvedSegs(B)
        s == Split(q, SLASH)
        t == SelectSeq(s, LAMBDA x : x # <<>>)
    IN  /\ IsAbsolute(q)
        /\ \A i \in 1..Len(t) : t[i] # DotDot /\ t[i] # <<DOT>>
        /\ Len(b) <= Len(t)
        /\ SubSeq(t, 1, Len(b)) = b

\* C1: for every home root B and raw path p, resolveSafe(B, p) is none or a
\* path inside B; never a path outside B (a sibling such as /aa for B = /a
\* included), also for encoded and backslash traversal sequences.
C1_Contained ==
    rResult # NotRun => (rResult = None \/ Inside(rBase, rResult))

\* A request that would escape B when joined unchecked (../aa onto /a gives
\* /aa) was resolved, and to a path inside B.
C1_Witness ==
    /\ rResult # NotRun
    /\ rResult # None
    /\ ~DecodeThrows(rPath)
    /\ ~Inside(rBase, PathJoin(rBase, PathNormalize(decodeURIComponent(rPath))))
    /\ Inside(rBase, rResult)

\* Some segment of p begins with '.'.
HasDotSegment(p) ==
    LET parts == Split(p, SLASH)
    IN  \E i \in 1..Len(parts) : Len(parts[i]) > 0 /\ parts[i][1] = DOT

\* The segments of q below B (q inside B).
Below(B, q) ==
    LET b == ResolvedSegs(B)
        t == ResolvedSegs(q)
    IN  JoinSegs(SubSeq(t, Len(b) + 1, Len(t)), SLASH)

\* C2: a path returned by resolveSafe has no segment below B, the final one
\* included, that begins with '.'; and every request path (origin form, so
\* beginning with '/') whose decoded and normalized form has such a segment
\* is answered with none.
C2_NoHiddenSegment ==
    rResult # NotRun =>
        /\ (rResult # None => ~HasDotSegment(Below(rBase, rResult)))
        /\ ( ( /\ ~DecodeThrows(rPath)
               /\ IsAbsolute(rPath)
               /\ HasDotSegment(PathNormalize(decodeURIComponent(rPath))) )
             => rResult = None )

\* A request for a hidden file inside B (/.a, /a/.a) was rejected.
C2_Witness ==
    /\ rResult = None
    /\ ~DecodeThrows(rPath)
    /\ IsAbsolute(rPath)
    /\ Inside(rBase, PathJoin(rBase, PathNormalize(decodeURIComponent(rPath))))
    /\ HasDotSegment(PathNormalize(decodeURIComponent(rPath)))

----------------------------------------------------------------------------
(* CGI framing                                                             *)

\* The first blank line of the output: position (0-based) and length.
FirstSeparator(output) ==
    LET c == IndexOf(output, CRLFCRLF)
        l == IndexOf(output, LFLF)
    IN  IF c = -1 /\ l = -1 THEN [at |-> -1, len |-> 0]
        ELSE IF l = -1 \/ (c # -1 /\ c < l) THEN [at |-> c, len |-> 4]
        ELSE [at |-> l, len |-> 2]

HasSeparator(output) == FirstSeparator(output).at # -1

BeforeSeparator(output) == SubSeq(output, 1, FirstSeparator(output).at)

AfterSeparator(output) ==
    Substring(output, FirstSeparator(output).at + FirstSeparator(output).len)

\* C4: for output that holds a blank-line separator, once stdout has ended
\* the header block applied is exactly the bytes before the separator and
\* the body is exactly the bytes after it, for both separator variants and
\* also when the body begins with a line ending.
C4_ExactSplit ==
    (php.stdoutEnded /\ HasSeparator(php.all)) =>
        /\ php.fr.headerPart = BeforeSeparator(php.all)
        /\ res.body = AfterSeparator(php.all)

\* C5: stdout ended while the decoder was still accumulating and at least
\* one byte was buffered: the whole output is the body, sent under status
\* 200, and the response is ended.
C5_FlushOnEnd ==
    (php.stdoutEnded /\ ~php.fr.headersSent /\ Len(php.fr.headerBuffer) > 0) =>
        /\ res.body = php.all
        /\ res.sentStatus = 200
        /\ res.finished

\* Output without any blank line ended, in more than one chunk's worth.
C5_Witness ==
    /\ php.stdoutEnded
    /\ ~php.fr.headersSent
    /\ ~HasSeparator(php.all)
    /\ Len(php.all) >= 2
    /\ res.finished

----------------------------------------------------------------------------
(* Error documents                                                         *)

\* The document a directive names for the failing request is being
\* delivered: its file was opened and piped, or the interpreter runs it.
ErrorDocumentServed ==
    \/ stream.origin = "errdoc" /\ stream.state \in {"flowing", "ended"}
    \/ /\ php.state = "running"
       /\ \E i \in 1..Len(started) :
              started[i].origin = "errdoc" /\ started[i].how = "php"

\* C3: when a 404 request is resolved to an existing error document,
\* streamed statically or run by the interpreter, the status sent to the
\* client with the response head is 404, never 200.
C3_ErrorDocumentStatus ==
    (ErrorDocumentServed /\ res.headersSent) => res.sentStatus = 404

----------------------------------------------------------------------------
(* The interpreter failing to start                                        *)

\* C6: once the "error" event of a process that failed to start has been
\* handled, the client has a complete response with status 500, whatever
\* of stdout "end" and "close" follows and in whichever order.
C6_SpawnFailure500 ==
    (php.state = "failed" /\ php.errorEmitted) =>
        /\ ~crashed
        /\ res.finished
        /\ res.sentStatus = 500

\* All three events of a failed start have been delivered, "close" first.
C6_Witness ==
    /\ php.state = "failed"
    /\ php.errorEmitted
    /\ php.stdoutEnded
    /\ php.closed
    /\ res.sentStatus = 500
    /\ Len(errorLog) >= 2

----------------------------------------------------------------------------
(* Dispatch on what the target is                                          *)

\* The request has been dispatched and its target was stat'ed as kind k.
DispatchedOn(k) ==
    /\ pc = "handled"
    /\ filePath # None
    /\ Kind(fs, filePath) = k

\* C7: a target that is a regular file is handed to the interpreter if and
\* only if its extension is .php in any letter case; every other regular
\* file is streamed statically.
C7_FileByExtension ==
    DispatchedOn("file") =>
        started = <<[how |-> IF reqPath \in {ReqFPhp, ReqFPhpUpper}
                             THEN "php" ELSE "static",
                     path |-> filePath, origin |-> "serveFile"]>>

\* The index candidates of the target directory, in probing order
Candidates == [i \in 1..Len(indexes) |-> PathJoin(filePath, indexes[i])]

FileCandidates == {i \in 1..Len(indexes) : Kind(fs, Candidates[i]) = "file"}

\* C8: for a target that is a directory the candidates index.php,
\* index.html, index.htm are probed in that order, each at most once and
\* none after a hit; the first that is a regular file is served as a file
\* of its type; when none is, the 404 lookup starts in that directory.
C8_IndexProbing ==
    DispatchedOn("dir") =>
        IF FileCandidates # {}
        THEN LET first == CHOOSE i \in FileCandidates :
                              \A j \in FileCandidates : i <= j
             IN  /\ statCalls = <<filePath>> \o SubSeq(Candidates, 1, first)
                 /\ started = <<[how |-> IF first = 1 THEN "php" ELSE "static",
                                 path |-> Candidates[first],
                                 origin |-> "serveFile"]>>
                 /\ lookups = <<>>
        ELSE /\ statCalls = <<filePath>> \o Candidates
             /\ lookups = <<filePath>>

\* C9: a target that exists but is neither a directory nor a regular file
\* is answered 403, with no directive lookup, no index probing, no file
\* read and no interpreter launched.
C9_Forbidden ==
    DispatchedOn("other") =>
        /\ ~crashed
        /\ res.finished
        /\ res.sentStatus = 403
        /\ lookups = <<>>
        /\ statCalls = <<filePath>>
        /\ started = <<>>
        /\ stream = NoStream
        /\ php = NoPhp

\* A special file was refused although a directive file next to it maps
\* 404 to a document that exists.
C9_Witness ==
    /\ DispatchedOn("other")
    /\ res.sentStatus = 403
    /\ PathJoin(DirD, HtaccessName) \in DOMAIN fs.ht
    /\ fs.ht[PathJoin(DirD, HtaccessName)] = <<Line404Html>>
    /\ existsSync(fs, PathJoin(DirD, DocHtml))

\* The path up to its last separator
ParentOf(p) ==
    LET last == CHOOSE i \in 1..Len(p) :
                    p[i] = SLASH /\ \A j \in (i + 1)..Len(p) : p[j] # SLASH
    IN  IF last = 1 THEN <<SLASH>> ELSE SubSeq(p, 1, last - 1)

\* C10: when the stat of the target fails, the directive lookup for 404
\* starts in the parent directory of the target.
C10_LookupFromParent ==
    DispatchedOn("absent") => lookups = <<ParentOf(filePath)>>

\* A missing file in d: the lookup started in d, which is neither the home
\* root nor the target, and the document d's directive file names was
\* chosen over the home's.
C10_Witness ==
    /\ DispatchedOn("absent")
    /\ lookups = <<DirD>>
    /\ filePath # DirD
    /\ PathJoin(HomeA, HtaccessName) \in DOMAIN fs.ht
    /\ Len(started) = 1
    /\ started[1].path = PathJoin(DirD, DocHtml)

----------------------------------------------------------------------------
(* Host resolution                                                         *)

EndsWith(str, suffix) ==
    /\ Len(suffix) <= Len(str)
    /\ SubSeq(str, Len(str) - Len(suffix) + 1, Len(str)) = suffix

\* A pattern matches a host: an exact name, or "*.suffix" for the suffix
\* itself and for every host ending in ".suffix".
PatternMatches(pattern, host) ==
    \/ pattern = host
    \/ /\ StartsWith(pattern, <<STAR, DOT>>)
       /\ LET suffix == SubSeq(pattern, 3, Len(pattern))
          IN  host = suffix \/ EndsWith(host, <<DOT>> \o suffix)

\* The home of the first entry, in configured order, with a matching pattern
FirstMatchingHome(cfg, host) ==
    LET matching == {i \in 1..Len(cfg) :
                        \E k \in 1..Len(DomainNames(cfg[i].domain)) :
                            PatternMatches(DomainNames(cfg[i].domain)[k], host)}
    IN  IF matching = {} THEN None
        ELSE cfg[CHOOSE i \in matching : \A j \in matching : i <= j].home

\* Lower-case hosts without a port
PlainHost(host) ==
    \A i \in 1..Len(host) : host[i] \notin {COLON, "FOO", "EXAMPLE"}

\* C11: getHomeForHost returns the home of the first entry, in configured
\* order, whose pattern matches the host (an exact name out of a
\* comma-separated list, or a "*.suffix" wildcard), and none when no entry
\* matches.
C11_FirstMatchingEntry ==
    (hHome # NotRun /\ PlainHost(reqHost)) =>
        hHome = FirstMatchingHome(config, reqHost)

\* The Host header without its port suffix, in lower case
CanonicalHost(host) ==
    LET colons == {i \in 1..Len(host) : host[i] = COLON}
        cut == IF colons = {} THEN host
               ELSE SubSeq(host, 1, (CHOOSE i \in colons :
                                        \A j \in colons : i <= j) - 1)
    IN  [i \in 1..Len(cut) |->
            CASE cut[i] = "FOO" -> "foo"
              [] cut[i] = "EXAMPLE" -> "example"
              [] OTHER -> cut[i]]

\* C12: a host that resolves to a home resolves to the same home when a
\* port suffix is appended to it and when its letters are in upper case.
C12_PortAndCaseIgnored ==
    (hHome # NotRun /\ getHomeForHost(config, CanonicalHost(reqHost)) # None) =>
        hHome = getHomeForHost(config, CanonicalHost(reqHost))

----------------------------------------------------------------------------
(* Not-found responses                                                     *)

\* The request was answered before any stat: no home, or no safe path
NoHome == pc = "handled" /\ getHomeForHost(config, reqHost) = None

Rejected ==
    /\ pc = "handled"
    /\ getHomeForHost(config, reqHost) # None
    /\ filePath = None

\* Status and body of the generic not-found response
IsNotFoundResponse ==
    /\ res.finished
    /\ res.sentStatus = 404
    /\ res.body = ErrorBody(reqAccept, 404, "Not Found")

\* C13: given the same Accept header, the response to a Host that matches
\* no virtual host has the status and the body of the response to a
\* rejected path.
C13_UnknownHostIndistinct ==
    (NoHome \/ Rejected) => IsNotFoundResponse

\* C14: a request resolveSafe rejects, for a malformed percent escape as
\* for any other reason, is answered with the generic 404: no exception
\* escapes, no 500, and nothing is stat'ed.
C14_RejectionIs404 ==
    Rejected =>
        /\ ~crashed
        /\ IsNotFoundResponse
        /\ statCalls = <<>>
        /\ errorLog = <<>>

\* A request with a malformed escape was answered 404.
C14_Witness ==
    /\ Rejected
    /\ DecodeThrows(reqPath)
    /\ res.sentStatus = 404
    /\ Len(accessLog) = 1

----------------------------------------------------------------------------
(* Protected names, dot segments, benign paths                             *)

\* The last segment of a path
FinalSegment(p) == Split(p, SLASH)[Len(Split(p, SLASH))]

\* C15: resolveSafe returns none for every request path (origin form) whose
\* final segment is the interpreter's runtime configuration file user.ini.
C15_UserIniRejected ==
    ( /\ rResult # NotRun
      /\ ~DecodeThrows(rPath)
      /\ IsAbsolute(rPath)
      /\ FinalSegment(decodeURIComponent(rPath)) = <<USER_INI>> )
        => rResult = None

\* C16: resolveSafe returns none for every raw request path (origin form)
\* that contains a segment equal to '.'.
C16_DotSegmentRejected ==
    ( /\ rResult # NotRun
      /\ IsAbsolute(rPath)
      /\ \E i \in 1..Len(Split(rPath, SLASH)) : Split(rPath, SLASH)[i] = <<DOT>> )
        => rResult = None

\* A path with valid escapes whose decoded segments are all ordinary: none
\* begins with '.', which covers '.', '..' and hidden names.
Benign(p) ==
    /\ ~DecodeThrows(p)
    /\ LET segs == Split(decodeURIComponent(p), SLASH)
       IN  \A i \in 1..Len(segs) : segs[i] = <<>> \/ segs[i][1] # DOT

\* C17: for a benign path p, resolveSafe(B, p) is the plain normalized join
\* of B and the decoded p, and is not none.
C17_BenignIsPlainJoin ==
    (rResult # NotRun /\ Benign(rPath)) =>
        /\ rResult # None
        /\ rResult = PathJoin(rBase, decodeURIComponent(rPath))

\* A benign path with a dot inside a name (/a.a) was resolved.
C17_Witness ==
    /\ rResult # NotRun
    /\ rResult # None
    /\ Benign(rPath)
    /\ \E i \in 2..Len(rPath) : rPath[i] = DOT /\ rPath[i - 1] = "a"
    /\ Len(rResult) > Len(rBase) + 1

----------------------------------------------------------------------------
(* Precedence of directive files                                           *)

HtFileIn(dir) == StripTrailingSlash(dir) \o <<SLASH>> \o HtaccessName

\* The nearest of the directories start, ..., home that holds a directive
\* file (in these trees only d and the home can hold one)
DecidingDir(start) ==
    IF StartsWith(start, DirD) /\ HtFileIn(DirD) \in DOMAIN fs.ht THEN DirD
    ELSE IF HtFileIn(HomeA) \in DOMAIN fs.ht THEN HomeA
    ELSE None

\* The document the directive file of dir names for 404, none if it names
\* none or the document does not exist
Document404(dir) ==
    LET line == fs.ht[HtFileIn(dir)][1]
        doc == dir \o <<SLASH>> \o line[3]
    IN  IF line[2] = <<"404">> /\ doc \in DOMAIN fs.kind THEN doc ELSE None

\* C18: the lookup uses only the first directory, walking up from the start
\* directory, that holds a directive file.  If that file maps 404 to an
\* existing document, that document is served; otherwise the default 404
\* body is sent, whatever the directive files of the ancestors map.
C18_NearestDirectiveFileDecides ==
    (pc = "handled" /\ Len(lookups) = 1) =>
        LET dir == DecidingDir(lookups[1])
            doc == IF dir = None THEN None ELSE Document404(dir)
        IN  IF doc # None
            THEN /\ Len(started) = 1
                 /\ started[1].origin = "errdoc"
                 /\ started[1].path = doc
            ELSE /\ started = <<>>
                 /\ IsNotFoundResponse

\* A 404 inside d, whose directive file maps only 500, got the default body
\* although the home's directive file maps 404 to a document that exists.
C18_Witness ==
    /\ pc = "handled"
    /\ lookups = <<DirD>>
    /\ HtFileIn(DirD) \in DOMAIN fs.ht
    /\ HtFileIn(HomeA) \in DOMAIN fs.ht
    /\ fs.ht[HtFileIn(DirD)] = <<Line500>>
    /\ fs.ht[HtFileIn(HomeA)] = <<Line404Html>>
    /\ HomeA \o <<SLASH>> \o DocHtml \in DOMAIN fs.kind
    /\ started = <<>>
    /\ res.sentStatus = 404

----------------------------------------------------------------------------
(* Repeated header lines                                                   *)

\* The values of the lines of a header block that carry the given name
\* (in lower case), in the order emitted
EmittedValues(output, name) ==
    LET lines == Split(BeforeSeparator(output), LF)
        named == SelectSeq(lines,
                     LAMBDA l : (IF l[1] = "Set-Cookie" THEN "set-cookie" ELSE l[1])
                                = name)
    IN  [i \in 1..Len(named) |->
            IF Len(named[i]) >= 3 THEN <<named[i][3]>> ELSE <<>>]

\* The values the response holds for a header (name in lower case)
HeldValues(name) ==
    LET idx == {i \in 1..Len(res.headers) :
                   res.headers[i].name \in {<<name>>, <<"Set-Cookie">>}
                   /\ (res.headers[i].name = <<"Set-Cookie">> => name = "set-cookie")}
    IN  IF idx = {} THEN <<>> ELSE res.headers[CHOOSE i \in idx : TRUE].values

\* C19: once a header block is applied, the response holds all values of
\* its Set-Cookie lines, in the order emitted, and for another header name
\* that is repeated only the value of its last line.
C19_CookiesKeptOthersReplaced ==
    (php.all \in HeaderOutputs /\ php.fr.headersSent) =>
        /\ HeldValues("set-cookie") = EmittedValues(php.all, "set-cookie")
        /\ LET hs == EmittedValues(php.all, "h")
           IN  HeldValues("h") = IF hs = <<>> THEN <<>> ELSE <<hs[Len(hs)]>>

----------------------------------------------------------------------------
(* Precedence in the interpreter's environment                             *)

Names(table) == {table[i].name : i \in 1..Len(table)}

\* The variable name an inbound header maps to
ExpectedHttpName(header) ==
    CASE header = <<"host">> -> <<"HTTP_", "HOST">>
      [] header = <<"accept">> -> <<"HTTP_", "ACCEPT">>
      [] header = <<"cookie">> -> <<"HTTP_", "COOKIE">>
      [] header = <<"content", "-", "type">> -> <<"HTTP_", "CONTENT", "_", "TYPE">>
      [] header \in {<<"x", "-", "a">>, <<"x", "_", "a">>} -> <<"HTTP_", "X", "_", "A">>

\* The variables the server computes for this request: the ones it always
\* assigns, and the ones whose request header is present
ServerComputed ==
    ServerEntries(processEnv, MethodGet, reqPath, AllHeaders, php.file)
    \o ConditionalEntries(AllHeaders)

\* C20: in the table handed to the interpreter every variable the server
\* computes holds the server's value, whatever the host's overrides and the
\* request headers carry under the same name; a request header is copied
\* to HTTP_<NAME> only when no variable of that name is in the table yet,
\* and a host override under that name is kept.
C20_ServerValuesWin ==
    php.state # "none" =>
        LET hostEnv == getEnvForHost(config, reqHost)
            table == php.env
        IN  /\ \A i \in 1..Len(ServerComputed) :
                   EnvGet(table, ServerComputed[i].name) = ServerComputed[i].value
            /\ EnvGet(table, <<"REQUEST_METHOD">>) = <<"GET">>
            /\ EnvGet(table, <<"SCRIPT_FILENAME">>) = php.file
            /\ EnvGet(table, <<"REDIRECT_STATUS">>) = <<"200">>
            /\ EnvGet(table, <<"HTTP_", "HOST">>) = reqHost
            /\ \A i \in 1..Len(AllHeaders) :
                   LET t == ExpectedHttpName(AllHeaders[i].name)
                       earlier == {ExpectedHttpName(AllHeaders[j].name) :
                                      j \in 1..(i - 1)}
                   IN  IF t \in Names(ServerComputed) \cup earlier THEN TRUE
                       ELSE IF t \in Names(hostEnv)
                       THEN EnvGet(table, t) = EnvGet(hostEnv, t)
                       ELSE IF t \in Names(processEnv)
                       THEN EnvGet(table, t) = EnvGet(processEnv, t)
                       ELSE EnvGet(table, t) = AllHeaders[i].value

\* The host overrides REQUEST_METHOD and HTTP_X_A and the request carries
\* x-a: the method is the server's, HTTP_X_A the host's.
C20_Witness ==
    /\ php.state # "none"
    /\ {<<"REQUEST_METHOD">>, <<"HTTP_", "X", "_", "A">>, <<"HTTP_", "HOST">>}
           \subseteq Names(getEnvForHost(config, reqHost))
    /\ <<"x", "-", "a">> \in Names(reqHeaders)
    /\ EnvGet(php.env, <<"REQUEST_METHOD">>) = <<"GET">>
    /\ EnvGet(php.env, <<"HTTP_", "X", "_", "A">>) = <<"host-value">>
    /\ EnvGet(php.env, <<"HTTP_", "COOKIE">>) = <<"k">>

----------------------------------------------------------------------------
(* Reloading the configuration                                             *)

\* What the lookup returns when evaluated against one whole snapshot
AgainstSnapshot(l, snapshot) ==
    IF l.fn = "home" THEN l.result = getHomeForHost(snapshot, l.host)
    ELSE l.result = getEnvForHost(snapshot, l.host)

\* C21: under every interleaving of SIGHUP reloads with the callbacks of a
\* request, each getHomeForHost and getEnvForHost lookup returned what it
\* returns against one whole snapshot that loadConfig produced (the list
\* before the reload or the list after it), never against a mixture.
C21_LookupSeesOneSnapshot ==
    \A i \in 1..Len(hostLookups) :
        \E k \in 1..Len(loaded) : AgainstSnapshot(hostLookups[i], loaded[k])

\* A reload fell between the two lookups of one request: the home came from
\* the old list, the interpreter's env from the new one.
C21_Witness ==
    /\ Len(loaded) = 2
    /\ loaded[2] = ReloadedConfig
    /\ Len(hostLookups) = 2
    /\ hostLookups[1].fn = "home" /\ hostLookups[1].result = HomeA
    /\ hostLookups[2].fn = "env"
    /\ hostLookups[2].result = getEnvForHost(ReloadedConfig, reqHost)
    /\ hostLookups[2].result # getEnvForHost(PhotonConfig, reqHost)

----------------------------------------------------------------------------
(* The access log                                                          *)

\* The response is complete and nothing the request started is still going:
\* an interpreter has emitted "close", a read stream has ended or failed.
RequestSettled ==
    /\ ~crashed
    /\ res.finished
    /\ php.state # "none" => php.closed
    /\ stream.state \notin {"opening", "flowing"}

----------------------------------------------------------------------------
(* The idle timeout                                                        *)

\* The step in which the socket is destroyed
TimeoutStep == connection = "open" /\ connection' = "destroyed"

\* C23: the timeout callback destroys the connection and appends one line
\* to the error log, and leaves the response (status, headers, body) and
\* the access log as they were; once handleRequest has armed the timer, a
\* connection does not stay open forever.
C23_IdleTimeoutClosesSilently ==
    /\ [][TimeoutStep =>
             /\ res' = res
             /\ accessLog' = accessLog
             /\ errorLog' = Append(errorLog, "Idle timeout")]_vars
    /\ (pc # "start" /\ ~crashed) ~> (connection = "destroyed" \/ crashed)

\* The silence fell while fs.stat was pending: the connection is gone, the
\* error log has its line and no byte of a response was written.
C23_Witness ==
    /\ connection = "destroyed"
    /\ pc = "stat"
    /\ errorLog = <<"Idle timeout">>
    /\ ~res.headersSent
    /\ res.body = <<>>

----------------------------------------------------------------------------
(* Generic error responses                                                 *)

\* The string has the media type application/json somewhere in it.
MentionsJson(accept) ==
    /\ accept # AcceptAbsent
    /\ \E i \in 1..Len(accept) : accept[i] = MediaJson

JsonBody(msg) == <<"{\"error\":", msg, "}">>

HtmlBody(statusCode, msg) ==
    <<"<h1>", ToString(statusCode), " Error</h1><p>", msg, "</p>">>

\* C24: after sendError the response is complete with the status it was
\* given, whatever the format; the body and its Content-Type are JSON when
\* the Accept header contains application/json and an HTML page otherwise.
C24_StatusGivenFormatByAccept ==
    pc = "handled" =>
        /\ ~crashed
        /\ res.finished
        /\ res.statusCode = eCode
        /\ res.sentStatus = eCode
        /\ IF MentionsJson(reqAccept)
           THEN /\ res.body = JsonBody("Not Found")
                /\ ResGetHeader(World, HContentType).values = <<<<MediaJson>>>>
           ELSE /\ res.body = HtmlBody(eCode, "Not Found")
                /\ ResGetHeader(World, HContentType).values = <<<<"text/html">>>>

\* A header that lists another type first and application/json after it:
\* the 403 goes out as JSON.
C24_Witness ==
    /\ pc = "handled"
    /\ reqAccept = <<"text/html", COMMA, MediaJson>>
    /\ eCode = 403
    /\ res.sentStatus = 403
    /\ res.body = JsonBody("Not Found")

----------------------------------------------------------------------------
(* A read stream failing                                                   *)

\* The stream failed after a chunk of the file had been written.
FailedMidStream ==
    /\ stream.state = "failed"
    /\ res.body # <<>>
    /\ res.body[1] = "data"

\* C25: when the read stream of a static file fails after bytes of the
\* response were sent, the error handler writes the failure to the error
\* log and terminates the connection, and the status and headers already
\* sent stay as they were.
C25_MidStreamFailureLogged ==
    FailedMidStream =>
        /\ ~crashed
        /\ errorLog = <<"Error streaming file">>
        /\ connection = "destroyed"
        /\ res.sentStatus = 200

----------------------------------------------------------------------------
(* The framing decoder's two states                                        *)

\* The bytes of the output delivered to the data handler so far
Consumed == SubSeq(php.all, 1, Len(php.all) - Len(php.out))

----------------------------------------------------------------------------
(* The interpreter's exit code                                             *)

\* The step in which the "close" event is handled
CloseStep == ~php.closed /\ php'.closed

\* C27: handling "close" leaves the response (status, headers, body,
\* whether it is ended) and the access log exactly as they were; a non-zero
\* exit code adds one line to the error log and a zero exit code nothing.
C27_ExitCodeLogOnly ==
    [][CloseStep =>
          /\ res' = res
          /\ accessLog' = accessLog
          /\ crashed' = crashed
          /\ errorLog' = IF php.exitCode # 0
                         THEN Append(errorLog, "PHP-CGI exited with code")
                         ELSE errorLog]_vars

\* An interpreter that ran, wrote its output and exited with code 1: one
\* response, one access-log entry, the exit code in the error log.
C27_Witness ==
    /\ php.state = "running"
    /\ php.closed
    /\ php.exitCode = 1
    /\ php.all = OutFramed
    /\ res.finished
    /\ res.body = <<"h">>
    /\ Len(accessLog) = 1
    /\ errorLog = <<"PHP-CGI exited with code">>

----------------------------------------------------------------------------
(* The interpreter's stderr                                                *)

\* The step in which a chunk of stderr is handled
StderrStep == php'.stderrLeft < php.stderrLeft

\* C28: a chunk of stderr adds one line to the error log and leaves the
\* response and the access log as they were, wherever it falls among the
\* chunks of stdout; no byte of stderr is ever in the response body.
C28_StderrLogOnly ==
    /\ [][StderrStep =>
             /\ res' = res
             /\ accessLog' = accessLog
             /\ errorLog' = Append(errorLog, "PHP-CGI error")]_vars
    /\ [](\A i \in 1..Len(res.body) : res.body[i] # StderrByte)

\* stderr spoke between two chunks of stdout, after the header block was
\* applied and before the body was complete.
C28_Witness ==
    /\ php.state = "running"
    /\ php.fr.headersSent
    /\ php.out # <<>>
    /\ php.stderrLeft = 0
    /\ errorLog = <<"PHP-CGI error">>
    /\ res.headersSent
    /\ res.body = <<>>

----------------------------------------------------------------------------
(* Directives within one file                                              *)

\* The line is an ErrorDocument directive with a code and a document.
IsErrorDocumentLine(line) ==
    /\ Len(line) >= 3
    /\ line[1] = <<KwErrorDocument>>

\* The document the file maps the code to: that of the last ErrorDocument
\* line for the code, taken relative to the file's directory; None when
\* the file has no such line.
MappedBy(lines, dir, code) ==
    LET hits == {i \in 1..Len(lines) :
                     IsErrorDocumentLine(lines[i]) /\ lines[i][2] = <<code>>}
    IN  IF hits = {} THEN None
        ELSE LET named == lines[CHOOSE i \in hits : \A j \in hits : j <= i][3]
             IN  IF named[1] = SLASH THEN named ELSE dir \o <<SLASH>> \o named

TheDirectiveFile == fs.ht[PathJoin(DirD, HtaccessName)]

\* C29: the mapping searchHtaccess returns for a directive file is, for
\* each status code, the document of the file's last ErrorDocument line
\* for that code, a relative document taken in the file's directory; lines
\* that are not ErrorDocument directives of at least three tokens leave it
\* as it is.
C29_LastDirectiveWins ==
    htErrors.done =>
        /\ LookupDoc(htErrors.errors, 404) = MappedBy(TheDirectiveFile, DirD, "404")
        /\ LookupDoc(htErrors.errors, 500) = MappedBy(TheDirectiveFile, DirD, "500")

----------------------------------------------------------------------------
(* No error document                                                       *)

\* No directive file, at any level, has a line for 404.
NoFileMaps404 ==
    \A h \in DOMAIN fs.ht :
        \A i \in 1..Len(fs.ht[h]) : fs.ht[h][i][2] # <<"404">>

\* The directive file that decides for the missing target maps 404 to a
\* document that does not exist.
MappedDocumentMissing ==
    LET dir == DecidingDir(ParentOf(filePath))
    IN  /\ dir # None
        /\ fs.ht[HtFileIn(dir)][1][2] = <<"404">>
        /\ Document404(dir) = None

\* C30: the target is missing and either no directive file at any level
\* maps 404 or the document mapped does not exist: the client has the
\* complete generic response with status 404, and no read stream and no
\* interpreter was started.
C30_GenericWhenNoDocument ==
    (DispatchedOn("absent") /\ (NoFileMaps404 \/ MappedDocumentMissing)) =>
        /\ ~crashed
        /\ res.finished
        /\ res.sentStatus = 404
        /\ res.body = ErrorBody(reqAccept, 404, "Not Found")
        /\ started = <<>>
        /\ stream = NoStream
        /\ php = NoPhp

\* The home's directive file maps 404 to a document that is not there: the
\* missing file in d was answered with the generic response.
C30_Witness ==
    /\ DispatchedOn("absent")
    /\ filePath = PathJoin(HomeA, ReqFTxt)
    /\ MappedDocumentMissing
    /\ ~NoFileMaps404
    /\ res.finished
    /\ res.sentStatus = 404
    /\ started = <<>>

----------------------------------------------------------------------------
(* C31: under fair delivery of filesystem, stream and process events every *)
(* accepted request eventually has its response ended or its connection    *)
(* torn down (by the idle timer, or with the process when a callback       *)
(* throws): no branch leaves the response open forever.                    *)

ResponseClosed == res.finished \/ connection = "destroyed" \/ crashed

\* Some event of the request is still to be delivered: its dispatch, an
\* fs.stat callback, the next event of a file stream, the next chunk or the
\* end of a started interpreter's stdout, the 'error' of a failed spawn.
EventPending ==
    /\ ~crashed
    /\ \/ pc \in {"start", "stat", "statIndex"}
       \/ stream.state \in {"opening", "flowing"}
       \/ php.state = "running" /\ ~php.stdoutEnded
       \/ php.state = "failed" /\ ~php.errorEmitted

\* The delivery of one of those events.
EventStep ==
    \/ HandleRequest
    \/ StatCallback
    \/ IndexStatCallback
    \/ StreamOpen
    \/ StreamData
    \/ StreamEnd
    \/ StreamError
    \/ PhpStdoutData
    \/ (PhpStdoutEnd /\ php.state = "running")
    \/ PhpError

\* An upper bound on the events still to come: the callbacks before the
\* request is handled, then the events of the stream or of the interpreter.
CallbacksLeft ==
    CASE pc = "start" -> Len(indexes) + 2
      [] pc = "stat" -> Len(indexes) + 1
      [] pc = "statIndex" -> Len(indexes) + 1 - idxI
      [] OTHER -> 0

StreamEventsLeft ==
    CASE stream.state = "opening" -> stream.chunks + 2
      [] stream.state = "flowing" -> stream.chunks + 1
      [] OTHER -> 0

PhpEventsLeft ==
    CASE php.state = "running" /\ ~php.stdoutEnded -> Len(php.out) + 1
      [] php.state = "failed" /\ ~php.errorEmitted -> 1
      [] OTHER -> 0

EventsLeft == <<CallbacksLeft, StreamEventsLeft + PhpEventsLeft>>

LexLess(a, b) == a[1] < b[1] \/ (a[1] = b[1] /\ a[2] < b[2])

\* C31: every accepted request leads to an ended response or a closed
\* connection under fair delivery: each delivered event strictly lowers the
\* number of events left and nothing raises it (so only finitely many events
\* are delivered), an event is delivered only while one is pending, and once
\* none is pending the response is ended or the connection is closed.
C31_ResponseEventuallyClosed ==
    /\ [][/\ EventStep => EventPending /\ LexLess(EventsLeft', EventsLeft)
          /\ ~EventStep => EventsLeft' = EventsLeft]_vars
    /\ [](EventPending \/ ResponseClosed)

\* A started interpreter that printed nothing: the response was ended by the
\* stdout end handler, with the connection still open.
C31_Witness ==
    /\ php.state = "running" /\ php.all = <<>> /\ php.stdoutEnded
    /\ res.finished /\ connection = "open" /\ ~crashed

----------------------------------------------------------------------------
(* C32: executePhp builds a fresh table per invocation                     *)

\* The names a table built for this request alone can hold: the server's
\* start environment, the host's overrides, what the server computes, and
\* the request's own headers.
OwnNames(file) ==
    Names(ProcessVariables) \cup Names(getEnvForHost(config, reqHost))
    \cup Names(ServerEntries(processEnv, MethodGet, reqPath, AllHeaders, file))
    \cup Names(ConditionalEntries(AllHeaders))
    \cup {HeaderEnvName(AllHeaders[i].name) : i \in 1..Len(AllHeaders)}

InvocationStep == php.state = "none" /\ php'.state # "none"

\* C32: an invocation of executePhp leaves process.env as it was, and the
\* table it hands to the interpreter is the one this request alone yields:
\* it holds no variable left by the other request.
C32_FreshEnvironment ==
    [][InvocationStep =>
          /\ processEnv' = processEnv
          /\ php'.env = BuildEnv(processEnv, getEnvForHost(config, reqHost),
                                 MethodGet, reqPath, AllHeaders, php'.file)
          /\ Names(php'.env) \subseteq OwnNames(php'.file)]_vars

\* The second of two requests handled by the process: this one carries no
\* x-a and no cookie, and its table has neither HTTP_X_A nor HTTP_COOKIE.
C32_Witness ==
    /\ Len(started) = MaxRequests
    /\ php.state # "none"
    /\ reqHeaders = <<>>
    /\ Names(getEnvForHost(config, reqHost)) = {}
    /\ ~EnvHas(php.env, <<"HTTP_", "X", "_", "A">>)
    /\ ~EnvHas(php.env, <<"HTTP_", "COOKIE">>)
    /\ EnvHas(php.env, <<"HTTP_", "HOST">>)

----------------------------------------------------------------------------
(* C33: the response is ended at most once                                 *)

\* A handler calls res.end (directly or through sendError) in this step; the
\* end that pipe() performs when the file stream ends is not a handler's.
HandlerEndsResponse == res'.endCalls > res.endCalls /\ ~StreamEnd

\* A file stream is piping into the response
Piping == stream.state = "flowing"

\* C33: no handler calls res.end on a response that was already ended or
\* that a file stream is piping into, and res.end is called at most once
\* for a request.
C33_EndedAtMostOnce ==
    /\ [][HandlerEndsResponse => ~res.finished /\ ~Piping]_vars
    /\ [](res.endCalls <= 1)

----------------------------------------------------------------------------
(* C34: the framing result does not depend on the chunking                 *)

FreshWorld ==
    [res |-> NewResponse, alog |-> <<>>, elog |-> <<>>, crashed |-> FALSE]

\* The response when the whole output arrives as a single 'data' chunk (or,
\* for an empty output, as none) and stdout then ends
DeliveredWhole(output) ==
    LET r == IF output = <<>> THEN [w |-> FreshWorld, fr |-> NewFraming]
             ELSE StdoutOnData(FreshWorld, NewFraming, output)
    IN  StdoutOnEnd(r.w, r.fr)

\* The invocation is over: stdout ended, or a handler threw.
InvocationOver == php.stdoutEnded \/ crashed

\* C34: however the output was split into chunks, once the invocation is
\* over the response has the headers and the body it has when the output
\* arrives in one piece (and the handlers throw under one split exactly when
\* they throw under the other).
C34_ChunkingIndependent ==
    InvocationOver =>
        LET whole == DeliveredWhole(php.all)
        IN  /\ crashed = whole.crashed
            /\ ~crashed => /\ res.headers = whole.res.headers
                           /\ res.body = whole.res.body

----------------------------------------------------------------------------
(* C35: two kinds of blank line in the buffer                              *)

HasBothSeparators(buffer) ==
    IndexOf(buffer, LFLF) # -1 /\ IndexOf(buffer, CRLFCRLF) # -1

\* C35: when the buffer that is framed holds both an LF LF and a CR LF CR LF
\* blank line, the header block is the bytes before the one that comes
\* first, so that no byte after the first blank line is parsed as a header
\* line.
C35_FirstSeparatorEndsBlock ==
    (php.fr.headersSent /\ HasBothSeparators(php.fr.headerBuffer)) =>
        php.fr.headerPart = BeforeSeparator(php.fr.headerBuffer)

----------------------------------------------------------------------------
(* C36: the access log and the status sent                                 *)

\* C36: every entry of the access log carries the status code of the status
\* line that went to the client for the request, whichever branch answered
\* it.
C36_LoggedStatusIsSentStatus ==
    \A i \in 1..Len(accessLog) :
        /\ res.headersSent
        /\ accessLog[i] = res.sentStatus

----------------------------------------------------------------------------
(* C37: the home and the interpreter's env of one request                  *)

\* C37: the home root a request was resolved under and the env overrides
\* its interpreter was given are those of one virtual-host entry of one
\* configuration snapshot, also when a reload fell between the two lookups.
C37_HomeAndEnvFromOneSnapshot ==
    \E k \in 1..Len(loaded) :
        \A i \in 1..Len(hostLookups) : AgainstSnapshot(hostLookups[i], loaded[k])

----------------------------------------------------------------------------
(* C38: the upward walk terminates                                         *)

\* The directory the walk is looking in, and the one it started in
WalkDir == lookups[Len(lookups)]
WalkStart == lookups[1]

\* How far a directory is from the end of the walk: nothing is above the
\* root or above "."
WalkRank(dir) == IF dir \in {<<SLASH>>, <<DOT>>} THEN 0 ELSE Len(dir) + 1

\* C38: from every start directory, an iteration that does not return moves
\* to the strict parent of the current directory, which is closer to the
\* root; the walk returns where a directive file is, or where the parent is
\* the directory itself, and then with an empty mapping; so it returns after
\* finitely many iterations, with what searchHtaccess yields.
C38_WalkTerminates ==
    /\ [][~htErrors.done =>
             IF htErrors'.done
             THEN /\ \/ existsSync(fs, PathJoin(WalkDir, HtaccessName))
                     \/ /\ PathDirname(WalkDir) = WalkDir
                        /\ htErrors'.errors = <<>>
                  /\ htErrors'.errors = searchHtaccess(fs, WalkStart).errors
             ELSE /\ WalkDir' = PathDirname(WalkDir)
                  /\ WalkDir' # WalkDir
                  /\ WalkRank(WalkDir') < WalkRank(WalkDir)]_vars
    /\ [](Len(lookups) <= MaxWalk)

\* A walk from /a/d through /a to the root that found no directive file and
\* returned the empty mapping.
C38_Witness ==
    /\ htErrors.done
    /\ htErrors.errors = <<>>
    /\ lookups = <<DirD, HomeA, <<SLASH>>>>
    /\ fs = EmptyFs

----------------------------------------------------------------------------
(* C39: the interpreter's output and the status code                       *)

\* The values of the Status lines of a header block, in order
StatusValues(headerPart) ==
    LET lines == SplitLines(headerPart)
        isStatus(line) ==
            /\ Len(Split(line, COLON)) >= 2
            /\ toLowerCase(Trim(Split(line, COLON)[1])) = toLowerCase(HStatus)
        picked == SelectSeq(lines, isStatus)
    IN  [k \in 1..Len(picked) |-> Trim(JoinSegs(Tail(Split(picked[k], COLON)), COLON))]

\* C39: whatever a started interpreter prints, the status code of the
\* response stays 200 and 200 is what is sent; a Status line of its header
\* block becomes the response header of that name, with the line's value,
\* and nothing else.
C39_OutputKeepsStatus ==
    /\ res.statusCode = 200
    /\ res.headersSent => res.sentStatus = 200
    /\ (php.fr.headersSent /\ ~crashed) =>
           LET values == StatusValues(php.fr.headerPart)
               idx == HeaderIndex(res.headers, HStatus)
           IN  IF values = <<>> THEN idx = {}
               ELSE /\ idx # {}
                    /\ \A i \in idx :
                           /\ ~res.headers[i].isArray
                           /\ res.headers[i].values = <<values[Len(values)]>>

\* The interpreter printed "Status: 404" and a body: the response went out
\* under 200 with a header Status: 404.
C39_Witness ==
    /\ php.stdoutEnded
    /\ res.finished /\ res.sentStatus = 200
    /\ res.body = <<"b">>
    /\ \E i \in HeaderIndex(res.headers, HStatus) : res.headers[i].values = <<<<"404">>>>

----------------------------------------------------------------------------
(* C40: what is served lies in the home                                    *)

\* The home root of the virtual host the request matched
MatchedHome == getHomeForHost(config, reqHost)

\* C40: every file a stream was opened on or an interpreter was started
\* with, error documents and index files included, lies inside the home
\* root of the matched host and has no segment there that begins with '.'.
C40_ServedInsideHome ==
    \A i \in 1..Len(started) :
        /\ Inside(MatchedHome, started[i].path)
        /\ ~HasDotSegment(Below(MatchedHome, started[i].path))

====
